---- MODULE Spec2Model ----
(***************************************************************************)
(* Tool dispatch and validation layer of the Appium MCP server:            *)
(* executeToolMethod (src/server/execute-tool-method.ts) with the schema   *)
(* registry it validates against (src/tools).  One call is followed from   *)
(* the schema validator through the routing switch and the awaited         *)
(* capability-provider calls to the response handed back to the caller.    *)
(***************************************************************************)
EXTENDS Integers, Sequences, FiniteSets, TLC

(***************************************************************************)
(* JavaScript values.  Every value is a record tagged with its kind.       *)
(* Numbers are fixed-point, counted in tenths (0.5 is 5, 1 is 10), so that *)
(* the fractional literals of the source (0.5, 0.1) are exact.  Strings    *)
(* are sequences of pieces: a template literal or a concatenation is the   *)
(* concatenation of the pieces, the empty string is <<>>.                  *)
(***************************************************************************)
Undef == [t |-> "undefined"]

Null == [t |-> "null"]

Num(n) == [t |-> "number", n |-> n]

Whole(k) == Num(10 * k)

NaN == [t |-> "number", nan |-> TRUE]

IsFinite(v) == v.t = "number" /\ "n" \in DOMAIN v

Str(s) == [t |-> "string", s |-> s]

Bool(b) == [t |-> "boolean", b |-> b]

Obj(f) == [t |-> "object", f |-> f]

Arr(a) == [t |-> "array", a |-> a]

ErrorObj(m) == [t |-> "error", message |-> m]

EmptyObj == Obj([k \in {} |-> Undef])

\* typeof v
TypeOf(v) ==
  CASE v.t = "undefined" -> "undefined"
    [] v.t = "number" -> "number"
    [] v.t = "string" -> "string"
    [] v.t = "boolean" -> "boolean"
    [] OTHER -> "object"

\* ToBoolean(v): the falsy values are undefined, null, 0, "" and false
Truthy(v) ==
  CASE v.t = "undefined" -> FALSE
    [] v.t = "null" -> FALSE
    [] v.t = "number" -> "n" \in DOMAIN v /\ v.n # 0
    [] v.t = "string" -> v.s # <<>>
    [] v.t = "boolean" -> v.b
    [] OTHER -> TRUE

\* k in v, for v an object (arrays and errors have no such own key here)
HasKey(v, k) == v.t = "object" /\ k \in DOMAIN v.f

\* v.k for a v that is not null or undefined
Get(v, k) ==
  IF HasKey(v, k) THEN v.f[k]
  ELSE IF v.t = "error" /\ k = "message" THEN Str(v.message)
  ELSE Undef

\* v?.k
OptGet(v, k) == IF v.t \in {"undefined", "null"} THEN Undef ELSE Get(v, k)

\* a || b
OrElse(a, b) == IF Truthy(a) THEN a ELSE b

Abs(n) == IF n < 0 THEN -n ELSE n

\* parts.join(sep) over a sequence of one-piece strings
RECURSIVE Join(_, _)
Join(parts, sep) ==
  IF parts = <<>> THEN <<>>
  ELSE IF Len(parts) = 1 THEN <<parts[1]>>
  ELSE <<parts[1], sep>> \o Join(Tail(parts), sep)

Range(s) == {s[i] : i \in DOMAIN s}

(***************************************************************************)
(* Schema registry: the tool modules, each an ordered list of descriptors. *)
(* properties is kept as the ordered list of <<name, schema>> pairs of the *)
(* source; description and default do not take part in validation and are  *)
(* left out.  minimum and maximum are in tenths, like every number.        *)
(***************************************************************************)
deviceManagementTools ==
  <<
  [name |-> "start_session",
   inputSchema |-> [type |-> "object", properties |-> <<
       <<"capabilities", [type |-> "object"]>> >>, required |-> <<"capabilities">>, additionalProperties |-> FALSE]],
  [name |-> "end_session",
   inputSchema |-> [type |-> "object", properties |-> <<>>, additionalProperties |-> FALSE]],
  [name |-> "get_device_info",
   inputSchema |-> [type |-> "object", properties |-> <<>>, additionalProperties |-> FALSE]],
  [name |-> "rotate_device",
   inputSchema |-> [type |-> "object", properties |-> <<
       <<"orientation", [type |-> "string", enum |-> <<"PORTRAIT", "LANDSCAPE">>]>> >>, required |-> <<"orientation">>, additionalProperties |-> FALSE]],
  [name |-> "get_screen_size",
   inputSchema |-> [type |-> "object", properties |-> <<>>, additionalProperties |-> FALSE]]
  >>

elementInteractionTools ==
  <<
  [name |-> "find_mobile_element",
   inputSchema |-> [type |-> "object", properties |-> <<
       <<"strategy", [type |-> "string", enum |-> <<"accessibility id", "id", "xpath", "class name", "css selector", "name">>]>>,
       <<"locator", [type |-> "string"]>>,
       <<"timeout", [type |-> "number"]>> >>, required |-> <<"strategy", "locator">>, additionalProperties |-> FALSE]],
  [name |-> "tap_element",
   inputSchema |-> [type |-> "object", properties |-> <<
       <<"elementId", [type |-> "string"]>> >>, required |-> <<"elementId">>, additionalProperties |-> FALSE]],
  [name |-> "send_mobile_keys",
   inputSchema |-> [type |-> "object", properties |-> <<
       <<"elementId", [type |-> "string"]>>,
       <<"text", [type |-> "string"]>>,
       <<"clearBefore", [type |-> "boolean"]>> >>, required |-> <<"elementId", "text">>, additionalProperties |-> FALSE]],
  [name |-> "get_element_text",
   inputSchema |-> [type |-> "object", properties |-> <<
       <<"elementId", [type |-> "string"]>> >>, required |-> <<"elementId">>, additionalProperties |-> FALSE]],
  [name |-> "get_element_bounds",
   inputSchema |-> [type |-> "object", properties |-> <<
       <<"elementId", [type |-> "string"]>> >>, required |-> <<"elementId">>, additionalProperties |-> FALSE]]
  >>

gestureTools ==
  <<
  [name |-> "swipe_screen",
   inputSchema |-> [type |-> "object", properties |-> <<
       <<"startX", [type |-> "number"]>>,
       <<"startY", [type |-> "number"]>>,
       <<"endX", [type |-> "number"]>>,
       <<"endY", [type |-> "number"]>>,
       <<"durationMs", [type |-> "number"]>> >>, required |-> <<"startX", "startY", "endX", "endY">>, additionalProperties |-> FALSE]],
  [name |-> "swipe_element",
   inputSchema |-> [type |-> "object", properties |-> <<
       <<"elementId", [type |-> "string"]>>,
       <<"offsetX", [type |-> "number"]>>,
       <<"offsetY", [type |-> "number"]>>,
       <<"durationMs", [type |-> "number"]>> >>, required |-> <<"elementId", "offsetX", "offsetY">>, additionalProperties |-> FALSE]],
  [name |-> "pinch_zoom",
   inputSchema |-> [type |-> "object", properties |-> <<
       <<"centerX", [type |-> "number"]>>,
       <<"centerY", [type |-> "number"]>>,
       <<"distance", [type |-> "number"]>>,
       <<"scale", [type |-> "number"]>>,
       <<"durationMs", [type |-> "number"]>> >>, required |-> <<"centerX", "centerY", "distance">>, additionalProperties |-> FALSE]],
  [name |-> "long_press",
   inputSchema |-> [type |-> "object", properties |-> <<
       <<"elementId", [type |-> "string"]>>,
       <<"x", [type |-> "number"]>>,
       <<"y", [type |-> "number"]>>,
       <<"durationMs", [type |-> "number"]>> >>, required |-> <<>>, additionalProperties |-> FALSE]],
  [name |-> "double_tap",
   inputSchema |-> [type |-> "object", properties |-> <<
       <<"elementId", [type |-> "string"]>>,
       <<"x", [type |-> "number"]>>,
       <<"y", [type |-> "number"]>> >>, required |-> <<>>, additionalProperties |-> FALSE]],
  [name |-> "multi_touch",
   inputSchema |-> [type |-> "object", properties |-> <<
       <<"touches", [type |-> "array", items |-> [type |-> "object", properties |-> <<
             <<"x", [type |-> "number"]>>,
             <<"y", [type |-> "number"]>>,
             <<"durationMs", [type |-> "number"]>> >>, required |-> <<"x", "y">>, additionalProperties |-> FALSE]]>> >>, required |-> <<"touches">>, additionalProperties |-> FALSE]],
  [name |-> "scroll",
   inputSchema |-> [type |-> "object", properties |-> <<
       <<"elementId", [type |-> "string"]>>,
       <<"deltaX", [type |-> "number"]>>,
       <<"deltaY", [type |-> "number"]>>,
       <<"durationMs", [type |-> "number"]>> >>, required |-> <<"deltaX", "deltaY">>, additionalProperties |-> FALSE]]
  >>

enhancedGestureTools ==
  <<
  [name |-> "enhanced_swipe",
   inputSchema |-> [type |-> "object", properties |-> <<
       <<"direction", [type |-> "string", enum |-> <<"up", "down", "left", "right">>]>>,
       <<"distance", [type |-> "number", minimum |-> 1, maximum |-> 10]>>,
       <<"velocity", [type |-> "number"]>>,
       <<"naturalScrolling", [type |-> "boolean"]>> >>, required |-> <<"direction">>, additionalProperties |-> FALSE]],
  [name |-> "enhanced_tap",
   inputSchema |-> [type |-> "object", properties |-> <<
       <<"x", [type |-> "number"]>>,
       <<"y", [type |-> "number"]>>,
       <<"force", [type |-> "number"]>>,
       <<"duration", [type |-> "number"]>> >>, required |-> <<"x", "y">>, additionalProperties |-> FALSE]],
  [name |-> "enhanced_long_press",
   inputSchema |-> [type |-> "object", properties |-> <<
       <<"x", [type |-> "number"]>>,
       <<"y", [type |-> "number"]>>,
       <<"duration", [type |-> "number"]>>,
       <<"contextMenu", [type |-> "boolean"]>>,
       <<"force", [type |-> "number"]>> >>, required |-> <<"x", "y">>, additionalProperties |-> FALSE]],
  [name |-> "enhanced_pinch_zoom",
   inputSchema |-> [type |-> "object", properties |-> <<
       <<"centerX", [type |-> "number"]>>,
       <<"centerY", [type |-> "number"]>>,
       <<"scale", [type |-> "number"]>>,
       <<"velocity", [type |-> "number"]>>,
       <<"fingers", [type |-> "number"]>> >>, required |-> <<"centerX", "centerY">>, additionalProperties |-> FALSE]],
  [name |-> "fling_gesture",
   inputSchema |-> [type |-> "object", properties |-> <<
       <<"direction", [type |-> "string", enum |-> <<"up", "down", "left", "right">>]>>,
       <<"velocity", [type |-> "number"]>>,
       <<"distance", [type |-> "number"]>> >>, required |-> <<"direction">>, additionalProperties |-> FALSE]],
  [name |-> "ios_natural_scroll",
   inputSchema |-> [type |-> "object", properties |-> <<
       <<"direction", [type |-> "string", enum |-> <<"up", "down", "left", "right">>]>>,
       <<"distance", [type |-> "number"]>>,
       <<"velocity", [type |-> "number"]>> >>, required |-> <<"direction">>, additionalProperties |-> FALSE]],
  [name |-> "ios_force_touch",
   inputSchema |-> [type |-> "object", properties |-> <<
       <<"x", [type |-> "number"]>>,
       <<"y", [type |-> "number"]>>,
       <<"force", [type |-> "number"]>> >>, required |-> <<"x", "y", "force">>, additionalProperties |-> FALSE]],
  [name |-> "android_fling",
   inputSchema |-> [type |-> "object", properties |-> <<
       <<"direction", [type |-> "string", enum |-> <<"up", "down", "left", "right">>]>>,
       <<"velocity", [type |-> "number"]>>,
       <<"distance", [type |-> "number"]>> >>, required |-> <<"direction">>, additionalProperties |-> FALSE]],
  [name |-> "android_long_press_menu",
   inputSchema |-> [type |-> "object", properties |-> <<
       <<"x", [type |-> "number"]>>,
       <<"y", [type |-> "number"]>>,
       <<"duration", [type |-> "number"]>> >>, required |-> <<"x", "y">>, additionalProperties |-> FALSE]]
  >>

locatorTools ==
  <<
  [name |-> "smart_locate_element",
   inputSchema |-> [type |-> "object", properties |-> <<
       <<"strategy", [type |-> "string", enum |-> <<"accessibility-id", "id", "xpath", "class", "name", "css", "tag", "link", "partial-link", "predicate", "class-chain", "uiautomator", "datamatcher", "text", "class-name">>]>>,
       <<"locator", [type |-> "string"]>>,
       <<"multiple", [type |-> "boolean"]>>,
       <<"timeout", [type |-> "number"]>>,
       <<"context", [type |-> "string"]>> >>, required |-> <<"strategy", "locator">>, additionalProperties |-> FALSE]],
  [name |-> "wait_for_element",
   inputSchema |-> [type |-> "object", properties |-> <<
       <<"strategy", [type |-> "string", enum |-> <<"accessibility-id", "id", "xpath", "class", "name", "css", "tag", "link", "partial-link", "predicate", "class-chain", "uiautomator", "datamatcher", "text", "class-name">>]>>,
       <<"locator", [type |-> "string"]>>,
       <<"timeout", [type |-> "number"]>>,
       <<"visible", [type |-> "boolean"]>>,
       <<"clickable", [type |-> "boolean"]>>,
       <<"context", [type |-> "string"]>> >>, required |-> <<"strategy", "locator">>, additionalProperties |-> FALSE]],
  [name |-> "validate_element",
   inputSchema |-> [type |-> "object", properties |-> <<
       <<"elementId", [type |-> "string"]>>,
       <<"visible", [type |-> "boolean"]>>,
       <<"enabled", [type |-> "boolean"]>>,
       <<"clickable", [type |-> "boolean"]>>,
       <<"text", [type |-> "string"]>>,
       <<"attributes", [type |-> "object", additionalProperties |-> TRUE]>> >>, required |-> <<"elementId">>, additionalProperties |-> FALSE]],
  [name |-> "ios_predicate_locate",
   inputSchema |-> [type |-> "object", properties |-> <<
       <<"predicate", [type |-> "string"]>>,
       <<"multiple", [type |-> "boolean"]>>,
       <<"timeout", [type |-> "number"]>> >>, required |-> <<"predicate">>, additionalProperties |-> FALSE]],
  [name |-> "ios_class_chain_locate",
   inputSchema |-> [type |-> "object", properties |-> <<
       <<"classChain", [type |-> "string"]>>,
       <<"multiple", [type |-> "boolean"]>>,
       <<"timeout", [type |-> "number"]>> >>, required |-> <<"classChain">>, additionalProperties |-> FALSE]],
  [name |-> "android_uiautomator_locate",
   inputSchema |-> [type |-> "object", properties |-> <<
       <<"selector", [type |-> "string"]>>,
       <<"multiple", [type |-> "boolean"]>>,
       <<"timeout", [type |-> "number"]>> >>, required |-> <<"selector">>, additionalProperties |-> FALSE]],
  [name |-> "android_datamatcher_locate",
   inputSchema |-> [type |-> "object", properties |-> <<
       <<"matcher", [type |-> "string"]>>,
       <<"multiple", [type |-> "boolean"]>>,
       <<"timeout", [type |-> "number"]>> >>, required |-> <<"matcher">>, additionalProperties |-> FALSE]],
  [name |-> "get_locator_suggestions",
   inputSchema |-> [type |-> "object", properties |-> <<
       <<"platform", [type |-> "string", enum |-> <<"ios", "android">>]>> >>, additionalProperties |-> FALSE]],
  [name |-> "cross_platform_locate",
   inputSchema |-> [type |-> "object", properties |-> <<
       <<"primaryStrategy", [type |-> "string", enum |-> <<"accessibility-id", "id", "xpath", "class", "name", "css", "tag", "link", "partial-link", "predicate", "class-chain", "uiautomator", "datamatcher", "text", "class-name">>]>>,
       <<"primaryLocator", [type |-> "string"]>>,
       <<"fallbackStrategies", [type |-> "array", items |-> [type |-> "object", properties |-> <<
             <<"strategy", [type |-> "string", enum |-> <<"accessibility-id", "id", "xpath", "class", "name", "css", "tag", "link", "partial-link", "predicate", "class-chain", "uiautomator", "datamatcher", "text", "class-name">>]>>,
             <<"locator", [type |-> "string"]>> >>, required |-> <<"strategy", "locator">>]]>>,
       <<"timeout", [type |-> "number"]>>,
       <<"multiple", [type |-> "boolean"]>> >>, required |-> <<"primaryStrategy", "primaryLocator">>, additionalProperties |-> FALSE]]
  >>

mobileAnalysisTools ==
  <<
  [name |-> "take_mobile_screenshot",
   inputSchema |-> [type |-> "object", properties |-> <<
       <<"format", [type |-> "string", enum |-> <<"png", "jpg">>]>>,
       <<"quality", [type |-> "number", minimum |-> 10, maximum |-> 1000]>>,
       <<"asBase64", [type |-> "boolean"]>> >>, additionalProperties |-> FALSE]],
  [name |-> "get_page_source",
   inputSchema |-> [type |-> "object", properties |-> <<>>, additionalProperties |-> FALSE]],
  [name |-> "wait_mobile_element",
   inputSchema |-> [type |-> "object", properties |-> <<
       <<"strategy", [type |-> "string", enum |-> <<"accessibility id", "id", "xpath", "class name", "css selector", "name">>]>>,
       <<"locator", [type |-> "string"]>>,
       <<"timeout", [type |-> "number"]>>,
       <<"visible", [type |-> "boolean"]>> >>, required |-> <<"strategy", "locator">>, additionalProperties |-> FALSE]],
  [name |-> "scroll_mobile",
   inputSchema |-> [type |-> "object", properties |-> <<
       <<"elementId", [type |-> "string"]>>,
       <<"deltaX", [type |-> "number"]>>,
       <<"deltaY", [type |-> "number"]>>,
       <<"direction", [type |-> "string", enum |-> <<"up", "down", "left", "right">>]>>,
       <<"distance", [type |-> "number"]>>,
       <<"durationMs", [type |-> "number"]>> >>, additionalProperties |-> FALSE]],
  [name |-> "long_press_element",
   inputSchema |-> [type |-> "object", properties |-> <<
       <<"strategy", [type |-> "string", enum |-> <<"accessibility id", "id", "xpath", "class name", "css selector", "name">>]>>,
       <<"locator", [type |-> "string"]>>,
       <<"durationMs", [type |-> "number"]>> >>, required |-> <<"strategy", "locator">>, additionalProperties |-> FALSE]]
  >>

appManagementTools ==
  <<
  [name |-> "launch_app",
   inputSchema |-> [type |-> "object", properties |-> <<
       <<"appId", [type |-> "string"]>> >>, required |-> <<>>, additionalProperties |-> FALSE]],
  [name |-> "terminate_app",
   inputSchema |-> [type |-> "object", properties |-> <<
       <<"appId", [type |-> "string"]>> >>, required |-> <<>>, additionalProperties |-> FALSE]],
  [name |-> "get_app_state",
   inputSchema |-> [type |-> "object", properties |-> <<
       <<"appId", [type |-> "string"]>> >>, required |-> <<"appId">>, additionalProperties |-> FALSE]],
  [name |-> "is_app_installed",
   inputSchema |-> [type |-> "object", properties |-> <<
       <<"bundleId", [type |-> "string"]>> >>, required |-> <<"bundleId">>, additionalProperties |-> FALSE]],
  [name |-> "install_app",
   inputSchema |-> [type |-> "object", properties |-> <<
       <<"appPath", [type |-> "string"]>> >>, required |-> <<"appPath">>, additionalProperties |-> FALSE]],
  [name |-> "remove_app",
   inputSchema |-> [type |-> "object", properties |-> <<
       <<"bundleId", [type |-> "string"]>> >>, required |-> <<"bundleId">>, additionalProperties |-> FALSE]],
  [name |-> "get_app_strings",
   inputSchema |-> [type |-> "object", properties |-> <<
       <<"language", [type |-> "string"]>>,
       <<"stringFile", [type |-> "string"]>> >>, required |-> <<>>, additionalProperties |-> FALSE]],
  [name |-> "start_activity",
   inputSchema |-> [type |-> "object", properties |-> <<
       <<"appPackage", [type |-> "string"]>>,
       <<"appActivity", [type |-> "string"]>>,
       <<"appWaitPackage", [type |-> "string"]>>,
       <<"appWaitActivity", [type |-> "string"]>> >>, required |-> <<"appPackage", "appActivity">>, additionalProperties |-> FALSE]],
  [name |-> "get_current_activity",
   inputSchema |-> [type |-> "object", properties |-> <<>>, additionalProperties |-> FALSE]],
  [name |-> "get_current_package",
   inputSchema |-> [type |-> "object", properties |-> <<>>, additionalProperties |-> FALSE]],
  [name |-> "background_app",
   inputSchema |-> [type |-> "object", properties |-> <<
       <<"seconds", [type |-> "number"]>> >>, required |-> <<>>, additionalProperties |-> FALSE]],
  [name |-> "reset_app",
   inputSchema |-> [type |-> "object", properties |-> <<>>, additionalProperties |-> FALSE]]
  >>

contextManagementTools ==
  <<
  [name |-> "get_contexts",
   inputSchema |-> [type |-> "object", properties |-> <<>>, additionalProperties |-> FALSE]],
  [name |-> "get_current_context",
   inputSchema |-> [type |-> "object", properties |-> <<>>, additionalProperties |-> FALSE]],
  [name |-> "switch_context",
   inputSchema |-> [type |-> "object", properties |-> <<
       <<"contextName", [type |-> "string"]>> >>, required |-> <<"contextName">>, additionalProperties |-> FALSE]],
  [name |-> "get_context_details",
   inputSchema |-> [type |-> "object", properties |-> <<>>, additionalProperties |-> FALSE]],
  [name |-> "switch_to_webview",
   inputSchema |-> [type |-> "object", properties |-> <<
       <<"index", [type |-> "number"]>> >>, required |-> <<"index">>, additionalProperties |-> FALSE]],
  [name |-> "switch_to_native",
   inputSchema |-> [type |-> "object", properties |-> <<>>, additionalProperties |-> FALSE]],
  [name |-> "is_webview_available",
   inputSchema |-> [type |-> "object", properties |-> <<>>, additionalProperties |-> FALSE]],
  [name |-> "get_webview_count",
   inputSchema |-> [type |-> "object", properties |-> <<>>, additionalProperties |-> FALSE]]
  >>

iosTools ==
  <<
  [name |-> "ios_get_simulator_list",
   inputSchema |-> [type |-> "object", properties |-> <<
       <<"runtime", [type |-> "string"]>> >>, additionalProperties |-> FALSE]],
  [name |-> "ios_create_simulator",
   inputSchema |-> [type |-> "object", properties |-> <<
       <<"name", [type |-> "string"]>>,
       <<"deviceType", [type |-> "string"]>>,
       <<"runtime", [type |-> "string"]>> >>, required |-> <<"name", "deviceType", "runtime">>, additionalProperties |-> FALSE]],
  [name |-> "ios_delete_simulator",
   inputSchema |-> [type |-> "object", properties |-> <<
       <<"udid", [type |-> "string"]>> >>, required |-> <<"udid">>, additionalProperties |-> FALSE]],
  [name |-> "ios_get_device_logs",
   inputSchema |-> [type |-> "object", properties |-> <<>>, additionalProperties |-> FALSE]],
  [name |-> "ios_install_app",
   inputSchema |-> [type |-> "object", properties |-> <<
       <<"appPath", [type |-> "string"]>>,
       <<"bundleId", [type |-> "string"]>> >>, required |-> <<"appPath">>, additionalProperties |-> FALSE]],
  [name |-> "ios_uninstall_app",
   inputSchema |-> [type |-> "object", properties |-> <<
       <<"bundleId", [type |-> "string"]>> >>, required |-> <<"bundleId">>, additionalProperties |-> FALSE]],
  [name |-> "ios_handle_system_alert",
   inputSchema |-> [type |-> "object", properties |-> <<
       <<"action", [type |-> "string", enum |-> <<"accept", "dismiss">>]>> >>, required |-> <<"action">>, additionalProperties |-> FALSE]],
  [name |-> "ios_get_device_info",
   inputSchema |-> [type |-> "object", properties |-> <<>>, additionalProperties |-> FALSE]]
  >>

androidTools ==
  <<
  [name |-> "android_get_emulator_list",
   inputSchema |-> [type |-> "object", properties |-> <<
       <<"apiLevel", [type |-> "string"]>> >>, additionalProperties |-> FALSE]],
  [name |-> "android_create_emulator",
   inputSchema |-> [type |-> "object", properties |-> <<
       <<"name", [type |-> "string"]>>,
       <<"device", [type |-> "string"]>>,
       <<"apiLevel", [type |-> "string"]>>,
       <<"target", [type |-> "string"]>> >>, required |-> <<"name", "device", "apiLevel", "target">>, additionalProperties |-> FALSE]],
  [name |-> "android_delete_emulator",
   inputSchema |-> [type |-> "object", properties |-> <<
       <<"name", [type |-> "string"]>> >>, required |-> <<"name">>, additionalProperties |-> FALSE]],
  [name |-> "android_get_device_logs",
   inputSchema |-> [type |-> "object", properties |-> <<>>, additionalProperties |-> FALSE]],
  [name |-> "android_install_apk",
   inputSchema |-> [type |-> "object", properties |-> <<
       <<"apkPath", [type |-> "string"]>>,
       <<"packageName", [type |-> "string"]>> >>, required |-> <<"apkPath">>, additionalProperties |-> FALSE]],
  [name |-> "android_uninstall_app",
   inputSchema |-> [type |-> "object", properties |-> <<
       <<"packageName", [type |-> "string"]>> >>, required |-> <<"packageName">>, additionalProperties |-> FALSE]],
  [name |-> "android_grant_permissions",
   inputSchema |-> [type |-> "object", properties |-> <<
       <<"packageName", [type |-> "string"]>>,
       <<"permissions", [type |-> "array", items |-> [type |-> "string"]]>> >>, required |-> <<"packageName", "permissions">>, additionalProperties |-> FALSE]],
  [name |-> "android_revoke_permissions",
   inputSchema |-> [type |-> "object", properties |-> <<
       <<"packageName", [type |-> "string"]>>,
       <<"permissions", [type |-> "array", items |-> [type |-> "string"]]>> >>, required |-> <<"packageName", "permissions">>, additionalProperties |-> FALSE]],
  [name |-> "android_toggle_network",
   inputSchema |-> [type |-> "object", properties |-> <<
       <<"enabled", [type |-> "boolean"]>> >>, required |-> <<"enabled">>, additionalProperties |-> FALSE]],
  [name |-> "android_get_device_info",
   inputSchema |-> [type |-> "object", properties |-> <<>>, additionalProperties |-> FALSE]]
  >>

\* tools: the list combined from all tool modules
tools ==
  deviceManagementTools \o elementInteractionTools \o gestureTools
    \o enhancedGestureTools \o locatorTools \o mobileAnalysisTools
    \o appManagementTools \o contextManagementTools \o iosTools \o androidTools

(***************************************************************************)
(* Ajv, constructed with default options (allErrors off): validation stops *)
(* at the first failing keyword, so validate.errors holds one error.       *)
(* Keywords are tried in Ajv's rule order: type, then enum, then the       *)
(* number limits, then for objects required (in listed order), then        *)
(* additionalProperties (in the data's key order), then properties (in     *)
(* schema order), and for arrays items (in index order).  The key order of *)
(* an argument bag is not part of the model: every additional key may be   *)
(* the first one met, so the result is the set of errors Ajv may report;   *)
(* the empty set means the data is valid.                                  *)
(***************************************************************************)
AjvError(keyword, path, param) ==
  [keyword |-> keyword, instancePath |-> path, param |-> param]

TypeMatches(type, data) ==
  CASE type = "object" -> data.t = "object"
    [] type = "array" -> data.t = "array"
    [] type = "number" -> data.t = "number"
    [] type = "string" -> data.t = "string"
    [] type = "boolean" -> data.t = "boolean"
    [] OTHER -> FALSE

\* the required keyword: the first listed property that data lacks
RequiredErrors(required, data, path) ==
  LET missing == {i \in DOMAIN required : ~HasKey(data, required[i])}
  IN IF missing = {} THEN {}
     ELSE {AjvError("required", path,
                    required[CHOOSE i \in missing : \A j \in missing : i <= j])}

\* the additionalProperties: false keyword
AdditionalErrors(schema, data, path) ==
  IF "additionalProperties" \in DOMAIN schema /\ ~schema.additionalProperties
  THEN LET declared == IF "properties" \in DOMAIN schema
                       THEN {schema.properties[i][1] : i \in DOMAIN schema.properties}
                       ELSE {}
       IN {AjvError("additionalProperties", path, k) : k \in DOMAIN data.f \ declared}
  ELSE {}

RECURSIVE SchemaErrors(_, _, _), PropertiesErrors(_, _, _, _), ItemsErrors(_, _, _, _)

SchemaErrors(schema, data, path) ==
  IF "type" \in DOMAIN schema /\ ~TypeMatches(schema.type, data)
  THEN {AjvError("type", path, schema.type)}
  ELSE IF "enum" \in DOMAIN schema
          /\ ~(data.t = "string" /\ \E e \in Range(schema.enum) : data.s = <<e>>)
  THEN {AjvError("enum", path, "allowedValues")}
  ELSE IF data.t = "number" /\ "maximum" \in DOMAIN schema /\ data.n > schema.maximum
  THEN {AjvError("maximum", path, "limit")}
  ELSE IF data.t = "number" /\ "minimum" \in DOMAIN schema /\ data.n < schema.minimum
  THEN {AjvError("minimum", path, "limit")}
  ELSE IF data.t = "object"
  THEN LET req == IF "required" \in DOMAIN schema
                  THEN RequiredErrors(schema.required, data, path) ELSE {}
           add == AdditionalErrors(schema, data, path)
       IN IF req # {} THEN req
          ELSE IF add # {} THEN add
          ELSE IF "properties" \in DOMAIN schema
          THEN PropertiesErrors(schema.properties, 1, data, path)
          ELSE {}
  ELSE IF data.t = "array" /\ "items" \in DOMAIN schema
  THEN ItemsErrors(schema.items, 1, data, path)
  ELSE {}

PropertiesErrors(properties, i, data, path) ==
  IF i > Len(properties) THEN {}
  ELSE LET name == properties[i][1]
           errs == IF HasKey(data, name)
                   THEN SchemaErrors(properties[i][2], data.f[name], path \o <<name>>)
                   ELSE {}
       IN IF errs # {} THEN errs ELSE PropertiesErrors(properties, i + 1, data, path)

ItemsErrors(items, i, data, path) ==
  IF i > Len(data.a) THEN {}
  ELSE LET errs == SchemaErrors(items, data.a[i], path \o <<"[]">>)
       IN IF errs # {} THEN errs ELSE ItemsErrors(items, i + 1, data, path)

\* JSON.stringify(validate.errors), for the single error e
StringifyErrors(e) ==
  <<"[{instancePath:">> \o e.instancePath
    \o <<",keyword:", e.keyword, ",params:", e.param, "}]">>

\* tools.find(t => t.name === toolName): the index of the first match, 0 if none
FindTool(toolName) ==
  LET idx == {i \in DOMAIN tools : tools[i].name = toolName}
  IN IF idx = {} THEN 0 ELSE CHOOSE i \in idx : \A j \in idx : i <= j

IsRegistered(toolName) == FindTool(toolName) # 0

SchemaOf(toolName) == tools[FindTool(toolName)].inputSchema

\* validate(args) of the validator compiled for toolName
CompiledValidate(toolName, args) == SchemaErrors(SchemaOf(toolName), args, <<>>)

\* the message built without reading validate.errors
ValidationMessageGeneric(e) == Str(<<"Invalid input">>)

\* the message built from validate.errors = [e]
ValidationMessage(e) ==
  LET requiredErrors == IF e.keyword = "required" THEN <<e.param>> ELSE <<>>
  IN IF requiredErrors # <<>>
     THEN Str(<<"Missing required properties: ">> \o Join(requiredErrors, ", "))
     ELSE Str(StringifyErrors(e))

\* validateToolInput(toolName, args): the values it may return, null or a message
validateToolInput(toolName, args) ==
  IF ~IsRegistered(toolName) THEN {Null}
  ELSE LET errors == CompiledValidate(toolName, args)
       IN IF errors = {} THEN {Null} ELSE {ValidationMessage(e) : e \in errors}

\* ajv.compile(schema): a validate function closed over the schema
Compile(schema) == [validates |-> schema]

\* validate(args): the errors the compiled function may leave in validate.errors
RunValidator(validate, args) == SchemaErrors(validate.validates, args, <<>>)

\* new Map(): the validators cache of a fresh module
EmptyCache == [n \in {} |-> Compile([type |-> "object"])]

\* a cache with a single slot: whatever validator was compiled first is used
\* for every tool
CachedValidatorAnyEntry(cache, toolName) ==
  IF DOMAIN cache # {}
  THEN cache[CHOOSE n \in DOMAIN cache : TRUE]
  ELSE Compile(SchemaOf(toolName))

\* let validate = validators.get(toolName); if (!validate) validate = ajv.compile(...)
CachedValidator(cache, toolName) ==
  IF toolName \in DOMAIN cache
  THEN cache[toolName]
  ELSE Compile(SchemaOf(toolName))

\* validators after validateToolInput(toolName, _): set on a miss only
CacheAfter(cache, toolName) ==
  IF IsRegistered(toolName) /\ toolName \notin DOMAIN cache
  THEN (toolName :> Compile(SchemaOf(toolName))) @@ cache
  ELSE cache

\* validateToolInput(toolName, args) run against the module's validators cache
validateToolInputWith(cache, toolName, args) ==
  IF ~IsRegistered(toolName) THEN {Null}
  ELSE LET errors == RunValidator(CachedValidator(cache, toolName), args)
       IN IF errors = {} THEN {Null} ELSE {ValidationMessage(e) : e \in errors}

\* wrapResult(res)
wrapResult(res) ==
  IF Truthy(res) /\ TypeOf(res) = "object" /\ HasKey(res, "success")
  THEN res
  ELSE Obj([success |-> Bool(TRUE), message |-> Str(<<"OK">>), data |-> res])

\* err instanceof Error ? err.message : err
ErrorDescription(err) == IF err.t = "error" THEN Str(err.message) ELSE err

\* wrapError(message, err); err is undefined when the argument is left out
wrapError(message, err) ==
  Obj([success |-> Bool(FALSE), message |-> Str(message),
       error |-> ErrorDescription(err)])

\* validateRequiredProps(required, args): null or the message; p in args throws
\* a TypeError when args is not an object, which the callers below rule out first
validateRequiredProps(required, args) ==
  LET missing == SelectSeq(required, LAMBDA p : ~HasKey(args, p))
  IN IF missing # <<>>
     THEN Str(<<"Missing required properties: ">> \o Join(missing, ", "))
     ELSE Null

(***************************************************************************)
(* The routing switch.  A handler runs until it returns a response, throws *)
(* or awaits a provider call; each of these is an outcome.                 *)
(***************************************************************************)
Return(origin, value) == [kind |-> "return", origin |-> origin, value |-> value]

Throw(err) == [kind |-> "throw", err |-> err]

CallProvider(manager, method, params) ==
  [kind |-> "call", manager |-> manager, method |-> method, params |-> params]

\* the cases of the form: required-property check, one provider call with
\* parameters read from args, wrapResult of what it returns
SimpleRoutes ==
  <<
  [tool |-> "end_session", required |-> <<>>, manager |-> "AppiumClient", method |-> "endSession", params |-> <<>>],
  [tool |-> "get_device_info", required |-> <<>>, manager |-> "AppiumClient", method |-> "getDeviceInfo", params |-> <<>>],
  [tool |-> "rotate_device", required |-> <<"orientation">>, manager |-> "DeviceManager", method |-> "rotateDevice", params |-> <<"orientation">>],
  [tool |-> "get_screen_size", required |-> <<>>, manager |-> "DeviceManager", method |-> "getScreenSize", params |-> <<>>],
  [tool |-> "find_mobile_element", required |-> <<"strategy", "locator">>, manager |-> "ElementManager", method |-> "findElement", params |-> <<"strategy", "locator">>],
  [tool |-> "tap_element", required |-> <<"strategy", "locator">>, manager |-> "ElementManager", method |-> "tapElement", params |-> <<"strategy", "locator">>],
  [tool |-> "send_mobile_keys", required |-> <<"strategy", "locator", "text">>, manager |-> "ElementManager", method |-> "sendKeys", params |-> <<"strategy", "locator", "text">>],
  [tool |-> "pinch_zoom", required |-> <<"centerX", "centerY">>, manager |-> "GestureManager", method |-> "pinchZoom", params |-> <<"centerX", "centerY", "scale">>],
  [tool |-> "long_press", required |-> <<"x", "y">>, manager |-> "GestureManager", method |-> "longPress", params |-> <<"x", "y", "durationMs">>],
  [tool |-> "double_tap", required |-> <<"x", "y">>, manager |-> "GestureManager", method |-> "doubleTap", params |-> <<"x", "y">>],
  [tool |-> "multi_touch", required |-> <<"touches">>, manager |-> "GestureManager", method |-> "multiTouch", params |-> <<"touches">>],
  [tool |-> "wait_mobile_element", required |-> <<"strategy", "locator">>, manager |-> "ElementManager", method |-> "findElement", params |-> <<"strategy", "locator">>],
  [tool |-> "get_contexts", required |-> <<>>, manager |-> "ContextManager", method |-> "getAvailableContexts", params |-> <<>>],
  [tool |-> "get_current_context", required |-> <<>>, manager |-> "ContextManager", method |-> "getCurrentContext", params |-> <<>>],
  [tool |-> "switch_context", required |-> <<"contextName">>, manager |-> "ContextManager", method |-> "switchToContext", params |-> <<"contextName">>],
  [tool |-> "get_context_details", required |-> <<>>, manager |-> "ContextManager", method |-> "getContextDetails", params |-> <<>>],
  [tool |-> "switch_to_webview", required |-> <<"index">>, manager |-> "ContextManager", method |-> "switchToWebView", params |-> <<"index">>],
  [tool |-> "switch_to_native", required |-> <<>>, manager |-> "ContextManager", method |-> "switchToNative", params |-> <<>>],
  [tool |-> "is_webview_available", required |-> <<>>, manager |-> "ContextManager", method |-> "isWebViewAvailable", params |-> <<>>],
  [tool |-> "get_webview_count", required |-> <<>>, manager |-> "ContextManager", method |-> "getWebViewCount", params |-> <<>>],
  [tool |-> "launch_app", required |-> <<>>, manager |-> "AppManager", method |-> "launchApp", params |-> <<"appId">>],
  [tool |-> "terminate_app", required |-> <<>>, manager |-> "AppManager", method |-> "terminateApp", params |-> <<"appId">>],
  [tool |-> "get_app_state", required |-> <<"appId">>, manager |-> "AppManager", method |-> "getAppState", params |-> <<"appId">>],
  [tool |-> "is_app_installed", required |-> <<"bundleId">>, manager |-> "AppManager", method |-> "isAppInstalled", params |-> <<"bundleId">>],
  [tool |-> "install_app", required |-> <<"appPath">>, manager |-> "AppManager", method |-> "installApp", params |-> <<"appPath">>],
  [tool |-> "remove_app", required |-> <<"bundleId">>, manager |-> "AppManager", method |-> "removeApp", params |-> <<"bundleId">>],
  [tool |-> "get_app_strings", required |-> <<>>, manager |-> "AppManager", method |-> "getAppStrings", params |-> <<"language", "stringFile">>],
  [tool |-> "start_activity", required |-> <<"appPackage", "appActivity">>, manager |-> "AppManager", method |-> "startActivity", params |-> <<"appPackage", "appActivity", "appWaitPackage", "appWaitActivity">>],
  [tool |-> "get_current_activity", required |-> <<>>, manager |-> "AppManager", method |-> "getCurrentActivity", params |-> <<>>],
  [tool |-> "get_current_package", required |-> <<>>, manager |-> "AppManager", method |-> "getCurrentPackage", params |-> <<>>],
  [tool |-> "background_app", required |-> <<>>, manager |-> "AppManager", method |-> "backgroundApp", params |-> <<"seconds">>],
  [tool |-> "reset_app", required |-> <<>>, manager |-> "AppManager", method |-> "resetApp", params |-> <<>>]
  >>

SimpleTools == {SimpleRoutes[i].tool : i \in DOMAIN SimpleRoutes}

SimpleRouteOf(toolName) ==
  SimpleRoutes[CHOOSE i \in DOMAIN SimpleRoutes : SimpleRoutes[i].tool = toolName]

\* const err = validateRequiredProps(required, args); if (err) return wrapError(err);
\* otherwise the handler goes on with rest
RequireProps(required, args, rest) ==
  LET err == validateRequiredProps(required, args)
  IN IF Truthy(err) THEN Return("required", wrapError(err.s, Undef)) ELSE rest

\* a handler that calls the provider without checking its required properties
SimpleRouteUnchecked(toolName, args) ==
  LET r == SimpleRouteOf(toolName)
  IN CallProvider(r.manager, r.method,
                  [i \in DOMAIN r.params |-> Get(args, r.params[i])])

SimpleRoute(toolName, args) ==
  LET r == SimpleRouteOf(toolName)
  IN RequireProps(r.required, args,
       CallProvider(r.manager, r.method,
                    [i \in DOMAIN r.params |-> Get(args, r.params[i])]))

\* the horizontal test written with >=: a tie goes to the horizontal axis
DeriveDirectionTieHorizontal(dx, dy) ==
  LET horizontal == Abs(dx) >= Abs(dy)
  IN IF horizontal THEN (IF dx < 0 THEN "left" ELSE "right")
     ELSE (IF dy < 0 THEN "up" ELSE "down")

\* horizontal = |dx| > |dy|; horizontal ? (dx < 0 ? left : right) : (dy < 0 ? up : down)
DeriveDirection(dx, dy) ==
  LET horizontal == Abs(dx) > Abs(dy)
  IN IF horizontal THEN (IF dx < 0 THEN "left" ELSE "right")
     ELSE (IF dy < 0 THEN "up" ELSE "down")

\* args.distance || 0.5
DistanceOrDefault(args) == OrElse(Get(args, "distance"), Num(5))

\* the scroll call both scroll and scroll_mobile make from deltas;
\* dx = args.deltaX || 0, dy = args.deltaY || 0
ScrollByDeltas(args) ==
  LET dx == OrElse(Get(args, "deltaX"), Num(0))
      dy == OrElse(Get(args, "deltaY"), Num(0))
  IN CallProvider("GestureManager", "scroll",
                  <<Str(<<DeriveDirection(dx.n, dy.n)>>), DistanceOrDefault(args)>>)

StartSession(args) ==
  RequireProps(<<"capabilities">>, args,
    CallProvider("AppiumClient", "startSession",
                 <<OrElse(Get(args, "capabilities"), args)>>))

FindThenRead(args) ==
  RequireProps(<<"strategy", "locator">>, args,
    CallProvider("ElementManager", "findElement",
                 <<Get(args, "strategy"), Get(args, "locator")>>))

SwipeScreen(args) ==
  IF Truthy(Get(args, "direction"))
  THEN CallProvider("GestureManager", "swipe",
                    <<Get(args, "direction"), Get(args, "distance")>>)
  ELSE IF \A k \in {"startX", "endX", "startY", "endY"} : TypeOf(Get(args, k)) = "number"
  THEN LET dx == Get(args, "endX").n - Get(args, "startX").n
           dy == Get(args, "endY").n - Get(args, "startY").n
       IN CallProvider("GestureManager", "swipe",
                       <<Str(<<DeriveDirection(dx, dy)>>), DistanceOrDefault(args)>>)
  ELSE Return("normalizer",
              wrapError(<<"swipe_screen requires direction or start/end coordinates">>, Undef))

Scroll(args) ==
  LET err == validateRequiredProps(<<"deltaX", "deltaY">>, args)
  IN IF Truthy(err)
     THEN IF TypeOf(Get(args, "deltaX")) = "number" \/ TypeOf(Get(args, "deltaY")) = "number"
          THEN ScrollByDeltas(args)
          ELSE Return("required", wrapError(err.s, Undef))
     ELSE ScrollByDeltas(args)

ScrollMobile(args) ==
  IF Truthy(Get(args, "direction"))
  THEN CallProvider("GestureManager", "scroll",
                    <<Get(args, "direction"), DistanceOrDefault(args)>>)
  ELSE LET dx == OrElse(Get(args, "deltaX"), Num(0))
           dy == OrElse(Get(args, "deltaY"), Num(0))
       IN IF TypeOf(dx) = "number" \/ TypeOf(dy) = "number"
          THEN ScrollByDeltas(args)
          ELSE Return("normalizer",
                      wrapError(<<"scroll_mobile requires direction or delta values">>, Undef))

\* const driver = appiumClient.getDriver && appiumClient.getDriver();
\* if (!driver) return wrapError('No active session'); await driver.<method>()
RawDriver(driver, method) ==
  IF ~Truthy(driver) THEN Return("no-session", wrapError(<<"No active session">>, Undef))
  ELSE CallProvider("driver", method, <<>>)

RawDriverTools == {"take_mobile_screenshot", "get_page_source"}

\* the default case reporting no name
UnknownToolUnnamed(toolName) == Return("unknown", wrapError(<<"Unknown tool">>, Undef))

\* default: return wrapError(`Unknown tool: ${toolName}`);
UnknownTool(toolName) ==
  Return("unknown", wrapError(<<"Unknown tool: ", toolName>>, Undef))

\* the switch of executeToolMethod, up to its first await or return
Route(toolName, args, driver) ==
  CASE toolName = "start_session" -> StartSession(args)
    [] toolName \in {"get_element_text", "get_element_bounds", "long_press_element"} ->
         FindThenRead(args)
    [] toolName = "swipe_screen" -> SwipeScreen(args)
    [] toolName = "swipe_element" ->
         Return("unsupported",
                wrapError(<<"swipe_element is not supported; use swipe_screen with coordinates">>, Undef))
    [] toolName = "scroll" -> Scroll(args)
    [] toolName = "rotate_gesture" ->
         Return("unsupported", wrapError(<<"rotate_gesture is not implemented">>, Undef))
    [] toolName = "take_mobile_screenshot" -> RawDriver(driver, "takeScreenshot")
    [] toolName = "get_page_source" -> RawDriver(driver, "getPageSource")
    [] toolName = "scroll_mobile" -> ScrollMobile(args)
    [] toolName \in SimpleTools -> SimpleRoute(toolName, args)
    [] OTHER -> UnknownTool(toolName)

RoutedTools ==
  SimpleTools \cup {"start_session", "get_element_text", "get_element_bounds",
                    "long_press_element", "swipe_screen", "swipe_element", "scroll",
                    "rotate_gesture", "take_mobile_screenshot", "get_page_source",
                    "scroll_mobile"}

\* found.success ? found.data?.<field> : found, for a found that may be anything
ReadFound(found, field) ==
  IF found.t \in {"undefined", "null"}
  THEN Throw(ErrorObj(<<"Cannot read properties of ", found.t, " (reading 'success')">>))
  ELSE Return("provider",
              wrapResult(IF Truthy(Get(found, "success"))
                         THEN OptGet(Get(found, "data"), field)
                         ELSE found))

\* the centre rounded to the nearest integer, as Math.round would
CenterOfRounded(pos, size) ==
  IF IsFinite(pos) /\ IsFinite(size)
  THEN Num(10 * ((2 * pos.n + size.n + 10) \div 20))
  ELSE NaN

\* Math.floor(pos + size / 2), NaN unless both are numbers
CenterOf(pos, size) ==
  IF IsFinite(pos) /\ IsFinite(size)
  THEN Num(10 * ((2 * pos.n + size.n) \div 20))
  ELSE NaN

\* long_press_element after findElement returned found
LongPressFound(args, found) ==
  IF ~Truthy(found) \/ ~Truthy(Get(found, "success"))
  THEN Return("not-found", wrapError(<<"Element not found for long_press_element">>, Undef))
  ELSE LET bounds == OptGet(Get(found, "data"), "bounds")
       IN IF ~Truthy(bounds)
          THEN Return("not-found",
                      wrapError(<<"Element bounds not available for long_press_element">>, Undef))
          ELSE CallProvider("GestureManager", "longPress",
                 <<CenterOf(Get(bounds, "x"), Get(bounds, "width")),
                   CenterOf(Get(bounds, "y"), Get(bounds, "height")),
                   Get(args, "durationMs")>>)

\* a handler that runs its case once more when the first provider call
\* returned a failed result
ResumeRetries(toolName, args, n, v) ==
  IF n = 1 /\ Get(v, "success") = Bool(FALSE)
  THEN Route(toolName, args, Null)
  ELSE Return("provider", wrapResult(v))

\* the handler resumed when the n-th awaited provider call returned v
Resume(toolName, args, n, v) ==
  CASE toolName = "get_element_text" -> ReadFound(v, "text")
    [] toolName = "get_element_bounds" -> ReadFound(v, "bounds")
    [] toolName = "long_press_element" /\ n = 1 -> LongPressFound(args, v)
    [] toolName = "take_mobile_screenshot" ->
         Return("provider", wrapResult(Obj([screenshot |-> v])))
    [] toolName = "get_page_source" ->
         Return("provider", wrapResult(Obj([pageSource |-> v])))
    [] OTHER -> Return("provider", wrapResult(v))

\* the handler resumed when the awaited provider call threw err: the two raw
\* driver cases have a try/catch of their own
Rejected(toolName, err) ==
  CASE toolName = "take_mobile_screenshot" ->
         Return("driver-catch", wrapError(<<"Failed to take screenshot">>, err))
    [] toolName = "get_page_source" ->
         Return("driver-catch", wrapError(<<"Failed to get page source">>, err))
    [] OTHER -> Throw(err)

\* the try/catch left out: the failure leaves executeToolMethod
CatchRethrows(error) == [kind |-> "reject", err |-> error]

\* catch (error) { return wrapError('Tool execution failed', error); }
Catch(error) == Return("catch", wrapError(<<"Tool execution failed">>, error))

\* the try block around the whole body: what the caller of executeToolMethod gets
Settle(outcome) == IF outcome.kind = "throw" THEN Catch(outcome.err) ELSE outcome

(***************************************************************************)
(* Inputs.  A call names a tool and brings an argument bag; the bags tried *)
(* for a tool range over every subset of the keys its schema declares or   *)
(* its handler reads, each key with well-typed and ill-typed values.       *)
(***************************************************************************)
MaxCoord == 2

UnregisteredNames == {"rotate_gesture", "fly_to_moon"}

ToolNames == {tools[i].name : i \in DOMAIN tools} \cup UnregisteredNames

DeclaredKeys(schema) ==
  IF "properties" \in DOMAIN schema
  THEN {schema.properties[i][1] : i \in DOMAIN schema.properties}
  ELSE {}

PropertySchema(schema, key) ==
  schema.properties[CHOOSE i \in DOMAIN schema.properties : schema.properties[i][1] = key][2]

\* the keys a handler reads from args
HandlerKeys(toolName) ==
  CASE toolName \in SimpleTools ->
         Range(SimpleRouteOf(toolName).required) \cup Range(SimpleRouteOf(toolName).params)
    [] toolName = "start_session" -> {"capabilities"}
    [] toolName \in {"get_element_text", "get_element_bounds"} -> {"strategy", "locator"}
    [] toolName = "long_press_element" -> {"strategy", "locator", "durationMs"}
    [] toolName = "swipe_screen" ->
         {"direction", "distance", "startX", "startY", "endX", "endY"}
    [] toolName = "scroll" -> {"deltaX", "deltaY", "distance"}
    [] toolName = "scroll_mobile" -> {"direction", "distance", "deltaX", "deltaY"}
    [] OTHER -> {}

ArgKeys(toolName) ==
  HandlerKeys(toolName)
    \cup (IF IsRegistered(toolName) THEN DeclaredKeys(SchemaOf(toolName)) ELSE {})

\* a value the schema accepts
RECURSIVE ValidSample(_)
ValidSample(schema) ==
  CASE schema.type = "string" ->
         Str(<<IF "enum" \in DOMAIN schema THEN schema.enum[1] ELSE "text">>)
    [] schema.type = "number" ->
         Num(IF "minimum" \in DOMAIN schema THEN schema.minimum ELSE 10)
    [] schema.type = "boolean" -> Bool(TRUE)
    [] schema.type = "array" ->
         Arr(IF "items" \in DOMAIN schema THEN <<ValidSample(schema.items)>> ELSE <<>>)
    [] OTHER ->
         Obj([k \in (IF "required" \in DOMAIN schema THEN Range(schema.required) ELSE {})
                |-> ValidSample(PropertySchema(schema, k))])

\* values the schema rejects: of another type, outside the enum, an array
\* whose item is of another type
InvalidSamples(schema) ==
  {IF schema.type = "string" THEN Whole(1) ELSE Str(<<"oops">>)}
    \cup (IF "enum" \in DOMAIN schema THEN {Str(<<"not-in-enum">>)} ELSE {})
    \cup (IF schema.type = "array" /\ "items" \in DOMAIN schema
          THEN {Arr(<<IF schema.items.type = "object" THEN EmptyObj ELSE Whole(1)>>)}
          ELSE {})

Directions == {"up", "down", "left", "right"}

ArgValues(toolName, key) ==
  LET declared == IsRegistered(toolName) /\ key \in DeclaredKeys(SchemaOf(toolName))
      rejected == IF declared
                  THEN InvalidSamples(PropertySchema(SchemaOf(toolName), key))
                  ELSE {}
  IN CASE key \in {"startX", "startY", "endX", "endY"} ->
            {Whole(k) : k \in 0..MaxCoord} \cup rejected
       [] key \in {"deltaX", "deltaY"} ->
            {Whole(k) : k \in (-MaxCoord)..MaxCoord} \cup rejected
       [] key = "distance" -> {Num(0), Num(5)} \cup rejected
       [] key = "direction" -> {Str(<<d>>) : d \in Directions} \cup {Str(<<>>)} \cup rejected
       [] key = "capabilities" ->
            {Obj([platformName |-> Str(<<"Android">>)])} \cup rejected
       [] declared -> {ValidSample(PropertySchema(SchemaOf(toolName), key))} \cup rejected
       [] key = "strategy" -> {Str(<<"accessibility-id">>)}
       [] key = "locator" -> {Str(<<"login-button">>)}
       [] OTHER -> {Str(<<"value">>)}

\* every bag over a subset of keys, each key with one of its values
RECURSIVE BagsOver(_, _)
BagsOver(toolName, keys) ==
  IF keys = {} THEN {[k \in {} |-> Undef]}
  ELSE LET key == CHOOSE k \in keys : TRUE
           rest == BagsOver(toolName, keys \ {key})
       IN rest \cup {(key :> v) @@ f : f \in rest, v \in ArgValues(toolName, key)}

\* the arguments tried for a tool: undefined (the parameter default applies),
\* non-objects, and every bag over its keys
ArgBags(toolName) ==
  {Undef, Null, Str(<<"not an object">>), Arr(<<>>)}
    \cup {Obj(f) : f \in BagsOver(toolName, ArgKeys(toolName))}

(***************************************************************************)
(* What a capability provider may do when called: return any value, shaped *)
(* like a response or not, or throw.                                       *)
(***************************************************************************)
ElementBounds ==
  Obj([x |-> Whole(1), y |-> Whole(2), width |-> Whole(3), height |-> Whole(4)])

SmallElementBounds ==
  Obj([x |-> Whole(0), y |-> Whole(3), width |-> Whole(1), height |-> Whole(1)])

\* what a manager method answers while its driver is null: if (!this.driver)
\* return {success: false, message: 'No active driver session'}; endSession and
\* getDeviceInfo of the client word it differently
NoDriverResult(manager, method) ==
  Obj([success |-> Bool(FALSE),
       message |-> Str(CASE manager = "AppiumClient" /\ method = "endSession" ->
                              <<"No active session to end">>
                         [] manager = "AppiumClient" /\ method = "getDeviceInfo" ->
                              <<"No active session">>
                         [] OTHER -> <<"No active driver session">>)])

ProviderValues ==
  { NoDriverResult("AppiumClient", "endSession"),
    NoDriverResult("AppiumClient", "getDeviceInfo"),
    NoDriverResult("GestureManager", "swipe"),
    Undef, Null, Str(<<"raw">>), Whole(1), Bool(FALSE), Arr(<<>>),
    Obj([elementId |-> Str(<<"el-1">>)]),
    Obj([success |-> Bool(TRUE), message |-> Str(<<"done">>)]),
    Obj([success |-> Bool(TRUE), data |-> Obj([elementId |-> Str(<<"el-1">>)])]),
    Obj([success |-> Bool(TRUE), message |-> Str(<<"found">>),
         data |-> Obj([elementId |-> Str(<<"el-1">>), text |-> Str(<<"Login">>),
                       bounds |-> ElementBounds])]),
    Obj([success |-> Bool(TRUE), message |-> Str(<<"found">>),
         data |-> Obj([bounds |-> SmallElementBounds])]),
    Obj([success |-> Bool(TRUE), message |-> Str(<<"done">>),
         error |-> Str(<<"stale warning">>)]),
    Obj([success |-> Bool(FALSE), message |-> Str(<<"provider failed">>),
         error |-> Str(<<"cause">>)]),
    Obj([success |-> Bool(FALSE), message |-> Str(<<>>)]),
    Obj([success |-> Bool(FALSE), message |-> Str(<<"validation failed">>),
         data |-> Obj([visible |-> Bool(FALSE)])]),
    Obj([success |-> Str(<<"yes">>)]) }

ProviderFailures == {ErrorObj(<<"device unreachable">>), Str(<<"thrown text">>)}

(***************************************************************************)
(* One call of executeToolMethod.                                          *)
(***************************************************************************)
VARIABLES
  pc,          \* where the call is: idle, validate, route, await, done
  toolName,    \* the call's tool name
  args,        \* the call's arguments, after the parameter default
  driver,      \* what appiumClient.getDriver() returned to the call
  validators,  \* the module's cache: tool name -> compiled validator
  calls,       \* the provider calls made so far by this call
  settled,     \* how each of them ended: the value returned or the failure thrown
  response,    \* the value the returned promise resolved with
  origin,      \* the return statement that produced the response
  rejected,    \* whether the returned promise rejected
  elementManager,          \* the ElementManager's fields
  enhancedGestureManager,  \* the EnhancedGestureManager's fields
  appiumClient,            \* the AppiumClient's fields and its managers' drivers
  contextManager,          \* the ContextManager's fields
  remote,                  \* the Appium server: the sessions created and those alive
  frame,                   \* the manager or client method calls in progress
  trace                    \* the calls a driver or provider received from them

dispatcherVars ==
  <<pc, toolName, args, driver, validators, calls, settled, response, origin, rejected>>

objectVars ==
  <<elementManager, enhancedGestureManager, appiumClient, contextManager, remote,
    frame, trace>>

vars == <<dispatcherVars, objectVars>>

NoResponse == [t |-> "none"]

DriverHandle == Obj([sessionId |-> Str(<<"session-1">>)])

Init ==
  /\ pc = "idle"
  /\ toolName = ""
  /\ args = Undef
  /\ driver = Null
  /\ validators = EmptyCache
  /\ calls = <<>>
  /\ settled = <<>>
  /\ response = NoResponse
  /\ origin = ""
  /\ rejected = FALSE
  /\ elementManager = [driver |-> Null]
  /\ enhancedGestureManager = [driver |-> Null, platform |-> Null]
  /\ appiumClient = [driver |-> Null, sessionInfo |-> Null,
                     managers |-> [deviceManager |-> Null, elementManager |-> Null,
                                   gestureManager |-> Null, contextManager |-> Null,
                                   appManager |-> Null]]
  /\ contextManager = [driver |-> Null]
  /\ remote = [created |-> 0, alive |-> {}]
  /\ frame = [pc |-> "idle"]
  /\ trace = <<>>

\* the state change an outcome of the handler makes
Apply(outcome) ==
  LET o == Settle(outcome)
  IN CASE o.kind = "return" ->
            /\ pc' = "done"
            /\ response' = o.value
            /\ origin' = o.origin
            /\ UNCHANGED <<calls, rejected>>
       [] o.kind = "call" ->
            /\ pc' = "await"
            /\ calls' = Append(calls, [manager |-> o.manager, method |-> o.method,
                                       params |-> o.params])
            /\ UNCHANGED <<response, origin, rejected>>
       [] OTHER ->
            /\ pc' = "done"
            /\ rejected' = TRUE
            /\ UNCHANGED <<calls, response, origin>>

\* executeToolMethod(appiumClient, t, a) is called; args defaults to {}
Invoke ==
  /\ pc = "idle"
  /\ \E t \in ToolNames : \E a \in ArgBags(t) :
       /\ toolName' = t
       /\ args' = IF a = Undef THEN EmptyObj ELSE a
  /\ pc' = "validate"
  /\ UNCHANGED <<driver, validators, calls, settled, response, origin, rejected>>
  /\ UNCHANGED objectVars

\* const validationError = validateToolInput(toolName, args);
\* if (validationError) return wrapError(`Invalid input: ${validationError}`);
Validate ==
  /\ pc = "validate"
  /\ validators' = CacheAfter(validators, toolName)
  /\ \E validationError \in validateToolInputWith(validators, toolName, args) :
       IF Truthy(validationError)
       THEN /\ pc' = "done"
            /\ response' = wrapError(<<"Invalid input: ">> \o validationError.s, Undef)
            /\ origin' = "validation"
            /\ UNCHANGED <<calls, rejected>>
       ELSE /\ pc' = "route"
            /\ UNCHANGED <<calls, response, origin, rejected>>
  /\ UNCHANGED <<toolName, args, driver, settled>>
  /\ UNCHANGED objectVars

\* switch (toolName), up to its first await or return; the client's driver,
\* which the two raw driver cases and the managers read, is null while no
\* session is active
Dispatch ==
  /\ pc = "route"
  /\ \E d \in {Null, DriverHandle} :
       /\ driver' = d
       /\ Apply(Route(toolName, args, d))
  /\ UNCHANGED <<toolName, args, validators, settled>>
  /\ UNCHANGED objectVars

\* the awaited provider call returns v
ProviderReturns(v) ==
  /\ pc = "await"
  /\ settled' = Append(settled, [kind |-> "returned", value |-> v])
  /\ Apply(Resume(toolName, args, Len(calls), v))
  /\ UNCHANGED <<toolName, args, driver, validators>>
  /\ UNCHANGED objectVars

\* the awaited provider call throws err
ProviderThrows(err) ==
  /\ pc = "await"
  /\ settled' = Append(settled, [kind |-> "threw", value |-> err])
  /\ Apply(Rejected(toolName, err))
  /\ UNCHANGED <<toolName, args, driver, validators>>
  /\ UNCHANGED objectVars

Next ==
  \/ Invoke
  \/ Validate
  \/ Dispatch
  \/ \E v \in ProviderValues : ProviderReturns(v)
  \/ \E err \in ProviderFailures : ProviderThrows(err)

Spec == Init /\ [][Next]_vars

(***************************************************************************)
(* Calls one after another in the same module: the validators cache lives  *)
(* on from call to call, everything else belongs to one call.              *)
(***************************************************************************)
CacheTools == {"start_session", "tap_element", "get_app_state", "fly_to_moon"}

\* executeToolMethod(appiumClient, t, a) for one of the tools above
InvokeAgain ==
  /\ pc = "idle"
  /\ \E t \in CacheTools : \E a \in ArgBags(t) :
       /\ toolName' = t
       /\ args' = IF a = Undef THEN EmptyObj ELSE a
  /\ pc' = "validate"
  /\ UNCHANGED <<driver, validators, calls, settled, response, origin, rejected>>
  /\ UNCHANGED objectVars

\* the call has returned; the next one starts from the cache it left
NextCall ==
  /\ pc = "done"
  /\ pc' = "idle"
  /\ toolName' = ""
  /\ args' = Undef
  /\ driver' = Null
  /\ calls' = <<>>
  /\ settled' = <<>>
  /\ response' = NoResponse
  /\ origin' = ""
  /\ UNCHANGED <<validators, rejected>>
  /\ UNCHANGED objectVars

NextCached ==
  \/ InvokeAgain
  \/ Validate
  \/ Dispatch
  \/ \E v \in ProviderValues : ProviderReturns(v)
  \/ \E err \in ProviderFailures : ProviderThrows(err)
  \/ NextCall

SpecCached == Init /\ [][NextCached]_vars

(***************************************************************************)
(* Properties of one call.                                                 *)
(***************************************************************************)
Finished == pc = "done"

\* the response's field k, undefined when the response has no such field
Field(k) == Get(response, k)

Absent(k) == Field(k) = Undef

Failed == Field("success") = Bool(FALSE)

Succeeded == Field("success") = Bool(TRUE)

MessagePieces == IF Field("message").t = "string" THEN Field("message").s ELSE <<>>

\* the arguments pass the tool's registered schema, or it has none
SchemaValid == ~IsRegistered(toolName) \/ CompiledValidate(toolName, args) = {}

\* C1: for every tool name, argument bag and provider behaviour the call ends
\* with a response object: no step of it is stuck, and the promise it returned
\* never rejects.
C1_AlwaysResponds ==
  /\ ~rejected
  /\ Finished => response.t = "object" /\ HasKey(response, "success")
  /\ pc = "validate" => validateToolInput(toolName, args) # {}
  /\ pc = "route" => ENABLED Dispatch
  /\ pc = "await" =>
       /\ \A v \in ProviderValues : ENABLED ProviderReturns(v)
       /\ \A err \in ProviderFailures : ENABLED ProviderThrows(err)

\* a provider call threw and the call still ended with a response
C1_Witness ==
  /\ Finished /\ origin = "catch" /\ ~rejected
  /\ settled # <<>> /\ settled[Len(settled)].kind = "threw"
  /\ Failed

\* C2 as stated: every response has success=false only with a non-empty
\* message and no data, and success=true only with no error.
C2_EnvelopeInvariant ==
  Finished =>
    /\ Failed => /\ Field("message").t = "string" /\ Field("message").s # <<>>
                 /\ Absent("data")
    /\ Succeeded => Absent("error")

LastSettled == settled[Len(settled)]

RequiredOf(schema) == IF "required" \in DOMAIN schema THEN schema.required ELSE <<>>

\* C4 as stated: when required fields are missing from the argument bag, the
\* validation failure message names every missing field.
C4_AllMissingNamed ==
  Finished /\ origin = "validation" /\ args.t = "object" =>
    \A p \in Range(RequiredOf(SchemaOf(toolName))) :
      ~HasKey(args, p) => p \in Range(MessagePieces)

\* C5 as stated: a call rejected for a missing or malformed argument, by the
\* schema validator or by the handler's required-property check, is answered
\* with success=false and a message beginning with "Invalid input: ".
C5_InvalidInputPrefix ==
  Finished /\ origin \in {"validation", "required"} =>
    /\ Failed
    /\ MessagePieces # <<>> /\ Head(MessagePieces) = "Invalid input: "

\* the properties the handler of a tool checks before it calls the provider
\* (scroll, which goes on with either delta, is left to its schema)
HandlerRequires(name) ==
  CASE name \in SimpleTools -> SimpleRouteOf(name).required
    [] name = "start_session" -> <<"capabilities">>
    [] name \in {"get_element_text", "get_element_bounds", "long_press_element"} ->
         <<"strategy", "locator">>
    [] OTHER -> <<>>

\* C6: validation precedes provider work: a call answered with a validation
\* failure, from the schema check or from the handler's required-property
\* check, has invoked no provider method; and a provider method is only ever
\* invoked for arguments that pass both checks.
C6_ValidationBeforeProvider ==
  /\ Finished /\ origin \in {"validation", "required"} => calls = <<>> /\ settled = <<>>
  /\ calls # <<>> =>
       /\ SchemaValid
       /\ \A p \in Range(HandlerRequires(toolName)) : HasKey(args, p)

\* the handler's own check rejected a schema-valid call before any provider call
C6_Witness ==
  /\ Finished /\ origin = "required" /\ toolName = "long_press"
  /\ args = EmptyObj /\ calls = <<>>

\* C7 as stated: wrapResult returns raw unchanged exactly when raw is an
\* object with a boolean success field, and otherwise {success:true,
\* message:"OK", data: raw}.
C7_PassThroughIffBooleanSuccess ==
  Finished /\ origin = "provider" /\ toolName \in SimpleTools =>
    LET raw == LastSettled.value
    IN response =
         IF raw.t = "object" /\ Get(raw, "success").t = "boolean" THEN raw
         ELSE Obj([success |-> Bool(TRUE), message |-> Str(<<"OK">>), data |-> raw])

\* C8 as stated: when a provider method throws a failure with description D,
\* the response is {success:false, message: P + D, error: D} for a fixed
\* prefix P.
C8_MessageCarriesDescription ==
  Finished /\ settled # <<>> /\ LastSettled.kind = "threw" =>
    LET D == ErrorDescription(LastSettled.value)
        n == Len(MessagePieces)
    IN /\ Failed
       /\ Field("error") = D
       /\ n > Len(D.s)
       /\ SubSeq(MessagePieces, n - Len(D.s) + 1, n) = D.s

\* the direction the claim gives for (dx, dy) not both zero
ExpectedDirection(dx, dy) ==
  CASE Abs(dx) > Abs(dy) /\ dx < 0 -> "left"
    [] Abs(dx) > Abs(dy) /\ dx > 0 -> "right"
    [] Abs(dx) <= Abs(dy) /\ dy < 0 -> "up"
    [] Abs(dx) <= Abs(dy) /\ dy > 0 -> "down"

\* args.k as a number, 0 when the key is absent
Delta(k) == IF HasKey(args, k) THEN args.f[k].n ELSE 0

SwipeDx == Get(args, "endX").n - Get(args, "startX").n

SwipeDy == Get(args, "endY").n - Get(args, "startY").n

FirstCallIs(method, direction) ==
  /\ calls # <<>>
  /\ calls[1].manager = "GestureManager" /\ calls[1].method = method
  /\ calls[1].params[1] = Str(<<direction>>)

\* C9: swipe_screen with numeric coordinates and no direction, and scroll and
\* scroll_mobile with deltas and no direction, invoke the provider gesture
\* with left/right when |dx| > |dy| (by the sign of dx) and with up/down when
\* |dx| <= |dy| (by the sign of dy), for (dx, dy) not both zero: ties resolve
\* to the vertical axis.
C9_DerivedDirection ==
  pc \in {"await", "done"} /\ SchemaValid /\ args.t = "object"
    /\ ~HasKey(args, "direction") =>
    /\ toolName = "swipe_screen" /\ <<SwipeDx, SwipeDy>> # <<0, 0>> =>
         FirstCallIs("swipe", ExpectedDirection(SwipeDx, SwipeDy))
    /\ toolName \in {"scroll", "scroll_mobile"}
         /\ <<Delta("deltaX"), Delta("deltaY")>> # <<0, 0>> =>
         FirstCallIs("scroll", ExpectedDirection(Delta("deltaX"), Delta("deltaY")))

\* a swipe with dx = dy > 0 reached the provider as a swipe down
C9_Witness ==
  /\ pc = "await" /\ toolName = "swipe_screen"
  /\ SwipeDx = SwipeDy /\ SwipeDx > 0
  /\ FirstCallIs("swipe", "down")

\* C10 as stated: swipe_screen with an explicit direction, optionally a
\* distance, and no coordinates invokes the provider's swipe with that
\* direction and distance.
C10_ExplicitDirectionSwipes ==
  Finished /\ toolName = "swipe_screen" /\ args.t = "object"
    /\ DOMAIN args.f \subseteq {"direction", "distance"}
    /\ Get(args, "direction") \in {Str(<<d>>) : d \in Directions}
    /\ Get(args, "distance").t \in {"undefined", "number"} =>
    calls = <<[manager |-> "GestureManager", method |-> "swipe",
               params |-> <<Get(args, "direction"), Get(args, "distance")>>]>>

\* the keys carrying a direction, a coordinate or a delta
DirectionalKeys ==
  {"direction", "startX", "startY", "endX", "endY", "deltaX", "deltaY"}

\* C11 as stated: swipe_screen, scroll and scroll_mobile called with neither a
\* direction nor any coordinate or delta answer success=false and invoke no
\* provider gesture; no default direction is chosen.
C11_NoDirectionNoGesture ==
  Finished /\ toolName \in {"swipe_screen", "scroll", "scroll_mobile"}
    /\ args.t = "object" /\ DOMAIN args.f \cap DirectionalKeys = {} =>
    Failed /\ calls = <<>>

\* the provider result r reports success
ResolvesSuccessfully(r) == r.kind = "returned" /\ Get(r.value, "success") = Bool(TRUE)

\* C12 as stated: tap_element called with {strategy: "accessibility-id",
\* locator: "login-button"} invokes tapElement(strategy, locator) and, the
\* provider resolving successfully, answers success=true.
C12_TapByLocatorSucceeds ==
  Finished /\ toolName = "tap_element"
    /\ args = Obj([strategy |-> Str(<<"accessibility-id">>),
                   locator |-> Str(<<"login-button">>)])
    /\ (settled # <<>> => ResolvesSuccessfully(settled[1])) =>
    /\ calls = <<[manager |-> "ElementManager", method |-> "tapElement",
                  params |-> <<Str(<<"accessibility-id">>), Str(<<"login-button">>)>>]>>
    /\ Succeeded

\* C13 as stated: swipe_element answers every argument bag with success=false
\* and a message naming swipe_screen as the alternative, and invokes no
\* provider method.
C13_SwipeElementNamesAlternative ==
  Finished /\ toolName = "swipe_element" =>
    /\ Failed /\ calls = <<>>
    /\ MessagePieces = <<"swipe_element is not supported; use swipe_screen with coordinates">>

\* C14: start_session called with {} is answered with success=false and a
\* message naming capabilities, and startSession is never invoked.
C14_MissingCapabilities ==
  toolName = "start_session" /\ args = EmptyObj =>
    /\ calls = <<>>
    /\ Finished => Failed /\ "capabilities" \in Range(MessagePieces)

\* start_session with {} was answered
C14_Witness ==
  Finished /\ toolName = "start_session" /\ args = EmptyObj /\ Failed

\* C15 as stated: a registered tool name called with arguments that satisfy
\* its schema is never answered "Unknown tool: <name>".
C15_RegisteredIsRouted ==
  Finished /\ IsRegistered(toolName) /\ SchemaValid =>
    /\ origin # "unknown"
    /\ MessagePieces # <<"Unknown tool: ", toolName>>

\* the provider call r failed: it threw, or returned success=false
ProviderFailed(r) == r.kind = "threw" \/ Get(r.value, "success") = Bool(FALSE)

OneCall(manager, method, params) ==
  calls = <<[manager |-> manager, method |-> method, params |-> params]>>

\* the response is the provider's result v: v itself, or v as the data of a
\* successful response
ReturnsResult(v) == response = v \/ (Succeeded /\ Field("data") = v)

NoSessionMessages ==
  {<<"No active session">>, <<"No active driver session">>, <<"No active session to end">>}

\* every provider call of this call was answered by a manager without a driver
AnsweredWithoutDriver ==
  /\ Len(settled) = Len(calls)
  /\ \A i \in DOMAIN settled :
       /\ settled[i].kind = "returned"
       /\ settled[i].value = NoDriverResult(calls[i].manager, calls[i].method)

\* C17 as stated: while the client's driver is null, take_mobile_screenshot
\* and get_page_source answer {success:false, message:"No active session"}
\* without a driver call, and every other routed tool that reaches its
\* provider answers success=false with a message stating that no session or
\* driver is active.
C17_NoSessionReported ==
  Finished /\ driver = Null /\ toolName # "start_session"
    /\ (calls # <<>> \/ origin = "no-session") /\ AnsweredWithoutDriver =>
    /\ Failed /\ MessagePieces \in NoSessionMessages
    /\ toolName \in RawDriverTools =>
         calls = <<>> /\ MessagePieces = <<"No active session">>

\* the bounds in what findElement returned, when it reports success and its
\* data has bounds
BoundsOf(found) == Get(Get(found, "data"), "bounds")

FoundWithBounds(found) ==
  Get(found, "success") = Bool(TRUE) /\ BoundsOf(found).t = "object"

\* floor(p + s / 2) for integers p and s
FloorCentre(p, s) == Whole((2 * (p.n \div 10) + (s.n \div 10)) \div 2)

\* C18: long_press_element, when findElement succeeds with bounds (x, y,
\* width, height), invokes longPress once with (floor(x + width/2),
\* floor(y + height/2), durationMs) and returns its result; when the element
\* is not found or its data has no bounds, the response is success=false and
\* longPress is never invoked.
C18_LongPressElement ==
  toolName = "long_press_element" /\ settled # <<>> /\ settled[1].kind = "returned" =>
    LET found == settled[1].value
        b == BoundsOf(found)
    IN IF FoundWithBounds(found)
       THEN /\ Len(calls) = 2
            /\ calls[2] = [manager |-> "GestureManager", method |-> "longPress",
                           params |-> <<FloorCentre(Get(b, "x"), Get(b, "width")),
                                        FloorCentre(Get(b, "y"), Get(b, "height")),
                                        Get(args, "durationMs")>>]
            /\ Len(settled) = 2 /\ settled[2].kind = "returned" =>
                 Finished /\ ReturnsResult(settled[2].value)
       ELSE Finished /\ Failed /\ Len(calls) = 1

\* longPress was invoked at the floored centre (0, 3) of bounds (0, 3, 1, 1)
C18_Witness ==
  /\ Finished /\ toolName = "long_press_element" /\ Len(calls) = 2
  /\ BoundsOf(settled[1].value) = SmallElementBounds
  /\ calls[2].params[1] = Whole(0) /\ calls[2].params[2] = Whole(3)
  /\ settled[2].kind = "returned"

\* the failure text of the provider call r: the message of a failed result,
\* the description of a thrown failure
FailureText(r) ==
  IF r.kind = "threw" THEN ErrorDescription(r.value) ELSE Get(r.value, "message")

\* C19 as stated: when a provider call fails, returning success=false with a
\* message or throwing, the response has success=false and carries that text
\* in its message or error field.
C19_FailureTextKept ==
  Finished /\ settled # <<>> /\ ProviderFailed(LastSettled)
    /\ (LastSettled.kind = "returned" => calls[Len(settled)].manager # "driver")
    /\ FailureText(LastSettled).t = "string" =>
    /\ Failed
    /\ FailureText(LastSettled) \in {Field("message"), Field("error")}

\* C20: the validator is history-independent: whatever earlier calls, with
\* valid or invalid arguments, have put into the validators cache, validating
\* (toolName, args) gives the outcome and the message it gives first, with an
\* empty cache; and the call goes on or is answered accordingly.
C20_ValidatorHistoryIndependent ==
  /\ pc = "validate" =>
       validateToolInputWith(validators, toolName, args)
         = validateToolInputWith(EmptyCache, toolName, args)
  /\ Finished /\ origin = "validation" =>
       \E m \in validateToolInputWith(EmptyCache, toolName, args) :
         /\ Truthy(m)
         /\ response = wrapError(<<"Invalid input: ">> \o m.s, Undef)
  /\ pc \in {"route", "await"} \/ (Finished /\ origin # "validation") =>
       Null \in validateToolInputWith(EmptyCache, toolName, args)

\* arguments the schema rejects are validated by a validator cached by an
\* earlier call, another tool's validator being cached too
C20_Witness ==
  /\ pc = "validate" /\ toolName = "tap_element"
  /\ {"tap_element", "start_session"} \subseteq DOMAIN validators
  /\ Null \notin validateToolInputWith(validators, toolName, args)

\* C21 as stated: the distance swipe_screen, scroll and scroll_mobile hand to
\* the provider is the caller's distance whenever one is supplied, 0 included,
\* and the default 0.5 exactly when none is supplied.
C21_DistanceKept ==
  pc \in {"await", "done"} /\ calls # <<>>
    /\ toolName \in {"swipe_screen", "scroll", "scroll_mobile"} =>
    calls[1].params[2] = IF HasKey(args, "distance") THEN Get(args, "distance")
                         ELSE Num(5)

\* C23 as stated: the schema check and the handler's own required-property
\* check never disagree: a call to a routed, registered tool whose arguments its
\* schema accepts is never answered by validateRequiredProps' "Missing required
\* properties" failure.
C23_LayersAgree ==
  Finished /\ toolName \in RoutedTools /\ IsRegistered(toolName) /\ SchemaValid =>
    /\ origin # "required"
    /\ ~(MessagePieces # <<>> /\ Head(MessagePieces) = "Missing required properties: ")

(***************************************************************************)
(* ElementManager: findElement and the selector it hands to the driver.    *)
(***************************************************************************)
\* the members of the MobileLocatorStrategy type
MobileLocatorStrategy ==
  {"accessibility-id", "id", "xpath", "class", "name", "css", "tag", "link",
   "partial-link", "predicate", "class-chain", "uiautomator", "datamatcher", "text",
   "class-name"}

\* the strategy values the find_mobile_element schema accepts
SchemaStrategies ==
  Range(PropertySchema(SchemaOf("find_mobile_element"), "strategy").enum)

LocatorStrategies == MobileLocatorStrategy \cup SchemaStrategies

LocatorValues == {<<"login-button">>, <<"//android.widget.Button">>, <<>>}

\* buildSelector(strategy, value): the selector text, piece by piece
buildSelector(strategy, value) ==
  CASE strategy = "accessibility-id" -> <<"~">> \o value
    [] strategy = "id" -> <<"#">> \o value
    [] strategy = "xpath" -> value
    [] strategy = "class" -> <<".">> \o value
    [] strategy = "name" -> <<"[name=\"">> \o value \o <<"\"]">>
    [] strategy = "css" -> value
    [] OTHER -> value

ElementFailures == {ErrorObj(<<"no such element">>), Str(<<"thrown text">>)}

\* what the element's getAttribute('id'), getText, isDisplayed and isEnabled return
ElementAnswers ==
  {[id |-> i, text |-> Str(<<"Sign in">>), isDisplayed |-> Bool(d), isEnabled |-> Bool(TRUE)] :
     i \in {Str(<<"e1">>), Null}, d \in BOOLEAN}

\* setDriver(driver)
ElementSetDriver ==
  /\ frame.pc = "idle"
  /\ \E d \in {Null, DriverHandle} :
       /\ d # elementManager.driver
       /\ elementManager' = [elementManager EXCEPT !.driver = d]
  /\ UNCHANGED <<dispatcherVars, enhancedGestureManager, appiumClient, contextManager,
                 remote, frame, trace>>

\* findElement(strategy, value), up to the element query
FindElement ==
  /\ frame.pc = "idle"
  /\ trace = <<>>
  /\ \E strategy \in LocatorStrategies : \E value \in LocatorValues :
       IF ~Truthy(elementManager.driver)
       THEN /\ frame' = [pc |-> "done", strategy |-> strategy, value |-> value,
                         result |-> Obj([success |-> Bool(FALSE),
                                         message |-> Str(<<"No active driver session">>)])]
            /\ UNCHANGED trace
       ELSE /\ trace' = Append(trace, [method |-> "$",
                                       selector |-> buildSelector(strategy, value)])
            /\ frame' = [pc |-> "element", strategy |-> strategy, value |-> value]
  /\ UNCHANGED <<dispatcherVars, elementManager, enhancedGestureManager, appiumClient,
                 contextManager, remote>>

\* the element resolves and its attributes are read
ElementFound ==
  /\ frame.pc = "element"
  /\ \E e \in ElementAnswers :
       frame' = [frame EXCEPT !.pc = "done"] @@
                [result |-> Obj([success |-> Bool(TRUE),
                                 message |-> Str(<<"Element found successfully">>),
                                 data |-> Obj([elementId |-> OrElse(e.id, Str(<<"unknown">>)),
                                               locator |-> Str(frame.value),
                                               strategy |-> Str(<<frame.strategy>>),
                                               text |-> e.text,
                                               isDisplayed |-> e.isDisplayed,
                                               isEnabled |-> e.isEnabled])])]
  /\ UNCHANGED <<dispatcherVars, elementManager, enhancedGestureManager, appiumClient,
                 contextManager, remote, trace>>

\* the query or one of the reads throws
ElementThrows ==
  /\ frame.pc = "element"
  /\ \E error \in ElementFailures :
       frame' = [frame EXCEPT !.pc = "done"] @@
                [result |-> Obj([success |-> Bool(FALSE),
                                 message |-> Str(<<"Element not found: ">> \o
                                    (IF error.t = "error" THEN error.message
                                     ELSE <<"Unknown error">>))])]
  /\ UNCHANGED <<dispatcherVars, elementManager, enhancedGestureManager, appiumClient,
                 contextManager, remote, trace>>

\* the caller has the result; the manager is ready for the next call
ElementDone ==
  /\ frame.pc = "done"
  /\ frame' = [pc |-> "idle"]
  /\ trace' = <<>>
  /\ UNCHANGED <<dispatcherVars, elementManager, enhancedGestureManager, appiumClient,
                 contextManager, remote>>

NextElement ==
  \/ ElementSetDriver
  \/ FindElement
  \/ ElementFound
  \/ ElementThrows
  \/ ElementDone

SpecElement == Init /\ [][NextElement]_vars

\* the selector syntax each schema-accepted strategy stands for
ExpectedSelector(strategy, value) ==
  CASE strategy = "accessibility id" -> <<"~">> \o value
    [] strategy = "id" -> <<"#">> \o value
    [] strategy = "class name" -> <<".">> \o value
    [] strategy = "name" -> <<"[name=\"">> \o value \o <<"\"]">>
    [] OTHER -> value

\* C24 as stated: for every strategy the find_mobile_element schema accepts, the
\* selector findElement hands to the driver has that strategy's syntax: "~"+v
\* for accessibility id, "#"+v for id, "."+v for class name, [name="v"] for
\* name, and v itself only for xpath and css selector.
C24_SchemaStrategySelector ==
  frame.pc \in {"element", "done"} /\ trace # <<>>
    /\ frame.strategy \in SchemaStrategies =>
    trace[1].selector = ExpectedSelector(frame.strategy, frame.value)

(***************************************************************************)
(* EnhancedGestureManager: setDriver with platform detection, and swipe    *)
(* with its iOS, Android and basic paths.                                  *)
(***************************************************************************)
MaxScreen == 2

\* PlatformDetector.detectPlatform(capabilities): the platform, or the error thrown
detectPlatform(capabilities) ==
  IF capabilities.t \in {"undefined", "null"}
  THEN [threw |-> TRUE, error |-> ErrorObj(<<"Cannot read properties of undefined">>)]
  ELSE IF Get(capabilities, "platformName") = Str(<<"iOS">>)
  THEN [threw |-> FALSE, value |-> Str(<<"ios">>)]
  ELSE IF Get(capabilities, "platformName") = Str(<<"Android">>)
  THEN [threw |-> FALSE, value |-> Str(<<"android">>)]
  ELSE [threw |-> TRUE,
        error |-> ErrorObj(<<"Unsupported platform: ">> \o
                    (IF Get(capabilities, "platformName").t = "string"
                     THEN Get(capabilities, "platformName").s ELSE <<"undefined">>))]

DriverFor(platformName) == Obj([capabilities |-> Obj([platformName |-> Str(<<platformName>>)])])

\* the drivers a caller attaches: none, iOS, Android, another platform, none declared
GestureDrivers ==
  {Null, DriverFor("iOS"), DriverFor("Android"), DriverFor("Windows"),
   Obj([capabilities |-> EmptyObj])}

\* window sizes in whole pixels, even so that the centre is a whole number of tenths
WindowSizes ==
  {[width |-> Whole(2 * w), height |-> Whole(2 * h)] : w, h \in 1..MaxScreen}

GestureDistances == {Undef, Num(2), Num(10)}

GestureOptions ==
  {Undef, EmptyObj} \cup
  {Obj([velocity |-> Whole(500)]), Obj([naturalScrolling |-> Bool(TRUE)]),
   Obj([naturalScrolling |-> Bool(FALSE)]),
   Obj([velocity |-> Whole(500), naturalScrolling |-> Bool(TRUE)]),
   Obj([velocity |-> Whole(500), naturalScrolling |-> Bool(FALSE)])}

GestureFailures == {ErrorObj(<<"touch failed">>), Str(<<"thrown text">>)}

\* a * b and a / 2 for numbers held in tenths
Times(a, b) == (a * b) \div 10

Half(a) == a \div 2

Min(a, b) == IF a < b THEN a ELSE b

\* the press, wait, moveTo, release sequence handed to driver.touchAction
TouchSequence(startX, startY, endX, endY, ms) ==
  <<[action |-> "press", x |-> Num(startX), y |-> Num(startY)],
    [action |-> "wait", ms |-> ms],
    [action |-> "moveTo", x |-> Num(endX), y |-> Num(endY)],
    [action |-> "release"]>>

\* the start and end points the three paths compute from the window size:
\* centred, offset / 2 either side along the direction's axis; reversed swaps
\* the two Y values of up and down
SwipePoints(direction, distance, size, reversed) ==
  LET centerX == Half(size.width.n)
      centerY == Half(size.height.n)
      offset == Times(Min(size.width.n, size.height.n), distance.n)
      below == centerY + Half(offset)
      above == centerY - Half(offset)
  IN [startX |-> CASE direction = "left" -> centerX + Half(offset)
                   [] direction = "right" -> centerX - Half(offset)
                   [] OTHER -> centerX,
      endX |-> CASE direction = "left" -> centerX - Half(offset)
                 [] direction = "right" -> centerX + Half(offset)
                 [] OTHER -> centerX,
      startY |-> CASE direction = "up" -> IF reversed THEN above ELSE below
                   [] direction = "down" -> IF reversed THEN below ELSE above
                   [] OTHER -> centerY,
      endY |-> CASE direction = "up" -> IF reversed THEN below ELSE above
                 [] direction = "down" -> IF reversed THEN above ELSE below
                 [] OTHER -> centerY]

\* androidSwipe(direction, distance, options) once the window size is known
androidSwipe(direction, distance, options, size) ==
  LET p == SwipePoints(direction, distance, size, FALSE)
      velocity == OrElse(OptGet(options, "velocity"), Whole(2000))
  IN TouchSequence(p.startX, p.startY, p.endX, p.endY, velocity)

\* iosSwipe with the naturalScrolling option ignored
iosSwipeUnnatural(direction, distance, options, size) ==
  LET p == SwipePoints(direction, distance, size, FALSE)
      velocity == OrElse(OptGet(options, "velocity"), Whole(1000))
  IN TouchSequence(p.startX, p.startY, p.endX, p.endY, velocity)

\* iosSwipe(direction, distance, options) once the window size is known
iosSwipe(direction, distance, options, size) ==
  LET naturalScrolling == OptGet(options, "naturalScrolling") # Bool(FALSE)
      p == SwipePoints(direction, distance, size, naturalScrolling)
      velocity == OrElse(OptGet(options, "velocity"), Whole(1000))
  IN TouchSequence(p.startX, p.startY, p.endX, p.endY, velocity)

\* basicSwipe(direction, distance) once the window size is known
basicSwipe(direction, distance, size) ==
  LET p == SwipePoints(direction, distance, size, FALSE)
  IN TouchSequence(p.startX, p.startY, p.endX, p.endY, Whole(1000))

\* the path swipe takes for the platform recorded by setDriver
SwipeBranch(platform) ==
  IF platform = Str(<<"ios">>) THEN "ios"
  ELSE IF platform = Str(<<"android">>) THEN "android"
  ELSE "basic"

SwipeTouches(branch, direction, distance, options, size) ==
  CASE branch = "ios" -> iosSwipe(direction, distance, options, size)
    [] branch = "android" -> androidSwipe(direction, distance, options, size)
    [] OTHER -> basicSwipe(direction, distance, size)

SwipeMessage(branch, direction) ==
  CASE branch = "ios" -> <<"iOS swipe ", direction, " completed with natural scrolling">>
    [] branch = "android" -> <<"Android swipe ", direction, " completed with momentum">>
    [] OTHER -> <<"Basic swipe ", direction, " completed">>

\* setDriver(driver): the driver is stored, then its platform detected
GestureSetDriver ==
  /\ frame.pc = "idle"
  /\ trace = <<>>
  /\ \E d \in GestureDrivers :
       LET detected == detectPlatform(Get(d, "capabilities"))
       IN IF ~Truthy(d)
          THEN /\ enhancedGestureManager' = [enhancedGestureManager EXCEPT !.driver = d]
               /\ frame' = [pc |-> "idle"]
          ELSE IF detected.threw
          THEN /\ enhancedGestureManager' = [enhancedGestureManager EXCEPT !.driver = d]
               /\ frame' = [pc |-> "idle", thrown |-> detected.error]
          ELSE /\ enhancedGestureManager' = [driver |-> d, platform |-> detected.value]
               /\ frame' = [pc |-> "idle"]
  /\ UNCHANGED <<dispatcherVars, elementManager, appiumClient, contextManager, remote,
                 trace>>

\* swipe(direction, distance = 0.5, options), up to getWindowSize
GestureSwipe ==
  /\ frame.pc = "idle"
  /\ \E direction \in Directions : \E d \in GestureDistances : \E options \in GestureOptions :
       LET distance == IF d = Undef THEN Num(5) ELSE d
       IN IF ~Truthy(enhancedGestureManager.driver)
          THEN frame' = [pc |-> "done", direction |-> direction, distance |-> distance,
                         options |-> options, branch |-> "none",
                         result |-> Obj([success |-> Bool(FALSE),
                                         message |-> Str(<<"No active driver session">>)])]
          ELSE frame' = [pc |-> "getWindowSize", direction |-> direction,
                         distance |-> distance, options |-> options,
                         branch |-> SwipeBranch(enhancedGestureManager.platform)]
  /\ UNCHANGED <<dispatcherVars, elementManager, enhancedGestureManager, appiumClient,
                 contextManager, remote, trace>>

\* getWindowSize resolves; the path is computed and handed to touchAction
GestureWindowSize ==
  /\ frame.pc = "getWindowSize"
  /\ \E size \in WindowSizes :
       /\ trace' = Append(trace,
            [method |-> "touchAction", size |-> size,
             actions |-> SwipeTouches(frame.branch, frame.direction, frame.distance,
                                      frame.options, size)])
       /\ frame' = [frame EXCEPT !.pc = "touchAction"]
  /\ UNCHANGED <<dispatcherVars, elementManager, enhancedGestureManager, appiumClient,
                 contextManager, remote>>

\* touchAction resolves; the path's success result is returned
GestureTouchDone ==
  /\ frame.pc = "touchAction"
  /\ frame' = [frame EXCEPT !.pc = "done"] @@
              [result |-> Obj([success |-> Bool(TRUE),
                               message |-> Str(SwipeMessage(frame.branch, frame.direction))])]
  /\ UNCHANGED <<dispatcherVars, elementManager, enhancedGestureManager, appiumClient,
                 contextManager, remote, trace>>

\* getWindowSize or touchAction rejects; swipe's catch answers
GestureThrows ==
  /\ frame.pc \in {"getWindowSize", "touchAction"}
  /\ \E error \in GestureFailures :
       LET text == IF error.t = "error" THEN error.message ELSE <<"Unknown error">>
       IN frame' = [frame EXCEPT !.pc = "done"] @@
                   [result |-> Obj([success |-> Bool(FALSE),
                                    message |-> Str(<<"Failed to swipe: ">> \o text),
                                    error |-> Str(text)])]
  /\ UNCHANGED <<dispatcherVars, elementManager, enhancedGestureManager, appiumClient,
                 contextManager, remote, trace>>

\* the caller has the result; the manager is ready for the next call
GestureDone ==
  /\ frame.pc = "done"
  /\ frame' = [pc |-> "idle"]
  /\ trace' = <<>>
  /\ UNCHANGED <<dispatcherVars, elementManager, enhancedGestureManager, appiumClient,
                 contextManager, remote>>

NextGesture ==
  \/ GestureSetDriver
  \/ GestureSwipe
  \/ GestureWindowSize
  \/ GestureTouchDone
  \/ GestureThrows
  \/ GestureDone

SpecGesture == Init /\ [][NextGesture]_vars

PlatformNameOf(d) == Get(Get(d, "capabilities"), "platformName")

\* C22 as stated: a driver whose declared platform is neither iOS nor Android,
\* or is absent, attaches to the EnhancedGestureManager without setDriver
\* raising, and a swipe made while it is attached takes the basic path and
\* returns a result with a success field.
C22_UnknownPlatformFallsBack ==
  LET d == enhancedGestureManager.driver
  IN Truthy(d) /\ PlatformNameOf(d) \notin {Str(<<"iOS">>), Str(<<"Android">>)} =>
       /\ "thrown" \notin DOMAIN frame
       /\ frame.pc = "done" =>
            frame.branch = "basic" /\ HasKey(frame.result, "success")

\* the touchAction sequence the swipe in progress handed to the driver
Touched == trace[1].actions

\* what the Android path computes for the same window size, direction,
\* distance and options
AndroidTouches ==
  androidSwipe(frame.direction, frame.distance, frame.options, trace[1].size)

SameVelocity(o1, o2) == OptGet(o1, "velocity") = OptGet(o2, "velocity")

NaturalScrollingOff == OptGet(frame.options, "naturalScrolling") = Bool(FALSE)

\* C28: for the same window size, direction and distance, the iOS path with
\* naturalScrolling unset or true swaps the Android path's start and end Y for
\* up and down (up starts above the centre and ends below it) and keeps its
\* coordinates for left and right; with naturalScrolling false it equals the
\* Android path; on Android the option changes nothing; and the wait is 1000 ms
\* on iOS and 2000 ms on Android when no velocity is given.
C28_NaturalScrolling ==
  frame.pc \in {"touchAction", "done"} /\ trace # <<>> =>
    LET centerY == Half(trace[1].size.height.n)
    IN /\ frame.branch = "ios" /\ ~NaturalScrollingOff =>
            /\ Touched[1].x = AndroidTouches[1].x /\ Touched[3].x = AndroidTouches[3].x
            /\ frame.direction \in {"up", "down"} =>
                 Touched[1].y = AndroidTouches[3].y /\ Touched[3].y = AndroidTouches[1].y
            /\ frame.direction = "up" =>
                 Touched[1].y.n < centerY /\ Touched[3].y.n > centerY
            /\ frame.direction \in {"left", "right"} =>
                 Touched[1].y = AndroidTouches[1].y /\ Touched[3].y = AndroidTouches[3].y
       /\ frame.branch = "ios" /\ NaturalScrollingOff =>
            Touched[1] = AndroidTouches[1] /\ Touched[3] = AndroidTouches[3]
       /\ frame.branch = "android" =>
            \A o \in GestureOptions :
              SameVelocity(o, frame.options) =>
                Touched = androidSwipe(frame.direction, frame.distance, o, trace[1].size)
       /\ OptGet(frame.options, "velocity") = Undef =>
            /\ frame.branch = "ios" => Touched[2].ms = Whole(1000)
            /\ frame.branch = "android" => Touched[2].ms = Whole(2000)

\* an iOS swipe up with no options has completed, from above the centre to below it
C28_Witness ==
  /\ frame.pc = "done" /\ trace # <<>>
  /\ frame.branch = "ios" /\ frame.direction = "up" /\ frame.options = Undef
  /\ Get(frame.result, "success") = Bool(TRUE)
  /\ Touched[1].y.n < Touched[3].y.n
  /\ Touched[2].ms = Whole(1000)

(***************************************************************************)
(* ContextManager: switchToWebView.                                        *)
(***************************************************************************)
MaxContexts == 3

ContextNames == {<<"NATIVE_APP">>, <<"WEBVIEW_", "com.example.app">>, <<"WEBVIEW_", "chrome">>}

\* the lists driver.getContexts() resolves with: distinct names in any order
ContextLists ==
  UNION {{s \in [1..n -> ContextNames] : \A i, j \in 1..n : s[i] = s[j] => i = j} :
           n \in 0..MaxContexts}

\* the webViewIndex arguments: left out, -1, 0, 0.5, 1, ... (in tenths)
WebViewIndexes ==
  {Undef, Whole(-1), Num(5)} \cup {Whole(k) : k \in 0..MaxContexts}

ContextFailures == {ErrorObj(<<"context lost">>), Str(<<"thrown text">>)}

\* ctx.startsWith('WEBVIEW_')
StartsWithWebview(ctx) == ctx # <<>> /\ Head(ctx) = "WEBVIEW_"

\* contexts.filter(ctx => ctx.startsWith('WEBVIEW_'))
FilterWebViews(contexts) == SelectSeq(contexts, StartsWithWebview)

\* webViews[webViewIndex]: the element, or undefined when the index is not one
\* of the array's
ElementAt(webViews, webViewIndex) ==
  IF webViewIndex.n % 10 = 0 /\ webViewIndex.n >= 0
     /\ webViewIndex.n \div 10 < Len(webViews)
  THEN Str(webViews[(webViewIndex.n \div 10) + 1])
  ELSE Undef

\* `${n}` for a number held in tenths
RECURSIVE NumberText(_)
NumberText(n) ==
  IF n < 0 THEN <<"-">> \o NumberText(-n)
  ELSE IF n % 10 = 0 THEN <<ToString(n \div 10)>>
  ELSE <<ToString(n \div 10), ".", ToString(n % 10)>>

\* `${v}` for a string or undefined
Interpolate(v) == IF v.t = "string" THEN v.s ELSE <<"undefined">>

\* setDriver(driver)
ContextSetDriver ==
  /\ frame.pc = "idle"
  /\ \E d \in {Null, DriverHandle} :
       /\ d # contextManager.driver
       /\ contextManager' = [contextManager EXCEPT !.driver = d]
  /\ UNCHANGED <<dispatcherVars, elementManager, enhancedGestureManager, appiumClient,
                 remote, frame, trace>>

\* switchToWebView(webViewIndex = 0), up to getContexts
SwitchToWebView ==
  /\ frame.pc = "idle"
  /\ trace = <<>>
  /\ \E i \in WebViewIndexes :
       LET webViewIndex == IF i = Undef THEN Whole(0) ELSE i
       IN IF ~Truthy(contextManager.driver)
          THEN frame' = [pc |-> "done", webViewIndex |-> webViewIndex, contexts |-> <<>>,
                         threw |-> FALSE,
                         result |-> Obj([success |-> Bool(FALSE),
                                         message |-> Str(<<"No active driver session">>)])]
          ELSE frame' = [pc |-> "getContexts", webViewIndex |-> webViewIndex,
                         contexts |-> <<>>, threw |-> FALSE]
  /\ UNCHANGED <<dispatcherVars, elementManager, enhancedGestureManager, appiumClient,
                 contextManager, remote, trace>>

\* getContexts resolves: the two range checks, then switchContext
ContextsListed ==
  /\ frame.pc = "getContexts"
  /\ \E contexts \in ContextLists :
       LET webViews == FilterWebViews(contexts)
           listed == [frame EXCEPT !.contexts = contexts]
       IN IF Len(webViews) = 0
          THEN /\ frame' = [listed EXCEPT !.pc = "done"] @@
                           [result |-> Obj([success |-> Bool(FALSE),
                               message |-> Str(<<"No webview contexts available">>)])]
               /\ UNCHANGED trace
          ELSE IF frame.webViewIndex.n >= 10 * Len(webViews)
          THEN /\ frame' = [listed EXCEPT !.pc = "done"] @@
                           [result |-> Obj([success |-> Bool(FALSE),
                               message |-> Str(<<"Webview index ">> \o
                                                 NumberText(frame.webViewIndex.n) \o
                                                 <<" is out of range. Available webviews: ",
                                                   ToString(Len(webViews))>>)])]
               /\ UNCHANGED trace
          ELSE /\ frame' = [listed EXCEPT !.pc = "switchContext"]
               /\ trace' = Append(trace,
                    [method |-> "switchContext",
                     targetWebView |-> ElementAt(webViews, frame.webViewIndex)])
  /\ UNCHANGED <<dispatcherVars, elementManager, enhancedGestureManager, appiumClient,
                 contextManager, remote>>

\* switchContext resolves
ContextSwitched ==
  /\ frame.pc = "switchContext"
  /\ frame' = [frame EXCEPT !.pc = "done"] @@
              [result |-> Obj([success |-> Bool(TRUE),
                               message |-> Str(<<"Switched to webview: ">> \o
                                               Interpolate(trace[1].targetWebView))])]
  /\ UNCHANGED <<dispatcherVars, elementManager, enhancedGestureManager, appiumClient,
                 contextManager, remote, trace>>

\* getContexts or switchContext rejects; the catch answers
ContextThrows ==
  /\ frame.pc \in {"getContexts", "switchContext"}
  /\ \E error \in ContextFailures :
       frame' = [frame EXCEPT !.pc = "done", !.threw = TRUE] @@
                [result |-> Obj([success |-> Bool(FALSE),
                                 message |-> Str(<<"Failed to switch to webview: ">> \o
                                    (IF error.t = "error" THEN error.message
                                     ELSE <<"Unknown error">>))])]
  /\ UNCHANGED <<dispatcherVars, elementManager, enhancedGestureManager, appiumClient,
                 contextManager, remote, trace>>

\* the caller has the result; the manager is ready for the next call
ContextDone ==
  /\ frame.pc = "done"
  /\ frame' = [pc |-> "idle"]
  /\ trace' = <<>>
  /\ UNCHANGED <<dispatcherVars, elementManager, enhancedGestureManager, appiumClient,
                 contextManager, remote>>

NextContext ==
  \/ ContextSetDriver
  \/ SwitchToWebView
  \/ ContextsListed
  \/ ContextSwitched
  \/ ContextThrows
  \/ ContextDone

SpecContext == Init /\ [][NextContext]_vars

\* the index is an integer i with 0 <= i < |W|
IndexInRange(webViewIndex, W) ==
  /\ webViewIndex.n % 10 = 0
  /\ 0 <= webViewIndex.n
  /\ webViewIndex.n < 10 * Len(W)

\* C29 as stated: with W the WEBVIEW_ contexts in listed order, and the driver
\* answering its calls, switchToWebView(index) calls switchContext exactly once,
\* with W[index], and returns success when index is an integer with
\* 0 <= index < |W|; for every other index, and when W is empty, it returns
\* success=false and never calls switchContext.
C29_SwitchOnlyInRange ==
  frame.pc = "done" /\ Truthy(contextManager.driver) /\ ~frame.threw =>
    LET W == FilterWebViews(frame.contexts)
    IN IF IndexInRange(frame.webViewIndex, W)
       THEN /\ Get(frame.result, "success") = Bool(TRUE)
            /\ Len(trace) = 1
            /\ trace[1].targetWebView = Str(W[(frame.webViewIndex.n \div 10) + 1])
       ELSE /\ Get(frame.result, "success") = Bool(FALSE)
            /\ trace = <<>>

(***************************************************************************)
(* LocatorTools: crossPlatformLocate, the primary strategy and then the    *)
(* fallbacks, each through LocatorManager.smartLocate.                     *)
(***************************************************************************)
MaxFallbacks == 2

FallbackChoices == {"id", "xpath", "accessibility-id"}

Fallback(strategy) ==
  Obj([strategy |-> Str(<<strategy>>), locator |-> Str(<<"login-button">>)])

\* fallbackStrategies: left out, or a list of up to MaxFallbacks entries
FallbackLists ==
  {Undef} \cup
  UNION {{Arr([i \in 1..n |-> Fallback(s[i])]) : s \in [1..n -> FallbackChoices]} :
           n \in 0..MaxFallbacks}

\* the args of crossPlatformLocate
LocateArgs ==
  {Obj([primaryStrategy |-> Str(<<p>>), primaryLocator |-> Str(<<"login">>),
        fallbackStrategies |-> f]) : p \in FallbackChoices, f \in FallbackLists}
  \cup
  {Obj([primaryStrategy |-> Str(<<"id">>), primaryLocator |-> Str(<<"login">>),
        fallbackStrategies |-> Arr(<<Fallback("xpath")>>), timeout |-> Whole(500),
        multiple |-> Bool(FALSE)])}

\* what smartLocate resolves with: found, no driver, or its own catch
LocateResults ==
  {Obj([success |-> Bool(TRUE), message |-> Str(<<"Element found successfully">>),
        data |-> Obj([elementId |-> Str(<<"e1">>)])]),
   Obj([success |-> Bool(FALSE), message |-> Str(<<"No active driver session">>)]),
   Obj([success |-> Bool(FALSE), message |-> Str(<<"Smart locate failed: ", "no such element">>),
        error |-> Str(<<"no such element">>)])}

\* the options object built before each smartLocate call
LocateOptions(a) ==
  LET keys == {k \in {"multiple", "timeout"} : Get(a, k) # Undef}
  IN Obj([k \in keys |-> Get(a, k)])

SmartLocateCall(strategy, locator, options) ==
  [method |-> "smartLocate", strategy |-> strategy, locator |-> locator,
   options |-> options]

\* { ...fallbackResult, message }
WithMessage(result, message) ==
  Obj([k \in DOMAIN result.f \cup {"message"} |->
         IF k = "message" THEN message ELSE result.f[k]])

NotFoundWithAny ==
  Obj([success |-> Bool(FALSE), message |-> Str(<<"Element not found with any strategy">>),
       error |-> Str(<<"All location strategies failed">>)])

\* the fallbacks the loop goes through: none when fallbackStrategies is left out
FallbacksOf(a) ==
  IF Truthy(Get(a, "fallbackStrategies")) THEN Get(a, "fallbackStrategies").a ELSE <<>>

\* crossPlatformLocate after its first attempt went on past a success
AfterAttemptIgnoresSuccess(a, attempts, result) ==
  IF attempts <= Len(FallbacksOf(a))
  THEN [kind |-> "call",
        call |-> SmartLocateCall(Get(FallbacksOf(a)[attempts], "strategy"),
                                 Get(FallbacksOf(a)[attempts], "locator"),
                                 LocateOptions(a))]
  ELSE IF Truthy(Get(result, "success"))
  THEN [kind |-> "return", value |-> result]
  ELSE [kind |-> "return", value |-> NotFoundWithAny]

\* crossPlatformLocate from the point where attempt number `attempts` (1 is the
\* primary strategy) resolved with result: return it, try the next fallback, or
\* give up
AfterAttempt(a, attempts, result) ==
  IF Truthy(Get(result, "success"))
  THEN IF attempts = 1
       THEN [kind |-> "return", value |-> result]
       ELSE [kind |-> "return",
             value |-> WithMessage(result,
                         Str(<<"Element found using fallback strategy: ">> \o
                             Get(FallbacksOf(a)[attempts - 1], "strategy").s))]
  ELSE IF attempts <= Len(FallbacksOf(a))
  THEN [kind |-> "call",
        call |-> SmartLocateCall(Get(FallbacksOf(a)[attempts], "strategy"),
                                 Get(FallbacksOf(a)[attempts], "locator"),
                                 LocateOptions(a))]
  ELSE [kind |-> "return", value |-> NotFoundWithAny]

\* crossPlatformLocate(args), up to the primary smartLocate
CrossPlatformLocate ==
  /\ frame.pc = "idle"
  /\ trace = <<>>
  /\ \E a \in LocateArgs :
       /\ frame' = [pc |-> "smartLocate", args |-> a, outcomes |-> <<>>]
       /\ trace' = <<SmartLocateCall(Get(a, "primaryStrategy"), Get(a, "primaryLocator"),
                                     LocateOptions(a))>>
  /\ UNCHANGED <<dispatcherVars, elementManager, enhancedGestureManager, appiumClient,
                 contextManager, remote>>

\* the awaited smartLocate resolves with result
SmartLocateReturns ==
  /\ frame.pc = "smartLocate"
  /\ \E result \in LocateResults :
       LET next == AfterAttempt(frame.args, Len(trace), result)
           seen == [frame EXCEPT !.outcomes = Append(@, result)]
       IN IF next.kind = "call"
          THEN /\ trace' = Append(trace, next.call)
               /\ frame' = seen
          ELSE /\ frame' = [seen EXCEPT !.pc = "done"] @@ [result |-> next.value]
               /\ UNCHANGED trace
  /\ UNCHANGED <<dispatcherVars, elementManager, enhancedGestureManager, appiumClient,
                 contextManager, remote>>

\* the caller has the result
LocateDone ==
  /\ frame.pc = "done"
  /\ frame' = [pc |-> "idle"]
  /\ trace' = <<>>
  /\ UNCHANGED <<dispatcherVars, elementManager, enhancedGestureManager, appiumClient,
                 contextManager, remote>>

NextLocate ==
  \/ CrossPlatformLocate
  \/ SmartLocateReturns
  \/ LocateDone

SpecLocate == Init /\ [][NextLocate]_vars

\* the strategies of a call in order: primary, fallback[0], fallback[1], ...
StrategiesInOrder(a) ==
  <<[strategy |-> Get(a, "primaryStrategy"), locator |-> Get(a, "primaryLocator")]>> \o
  [i \in 1..Len(FallbacksOf(a)) |->
     [strategy |-> Get(FallbacksOf(a)[i], "strategy"),
      locator |-> Get(FallbacksOf(a)[i], "locator")]]

Found(result) == Get(result, "success") = Bool(TRUE)

\* C30: crossPlatformLocate attempts the strategies in the order primary,
\* fallback[0], fallback[1], ..., each position at most once and only after
\* every earlier one failed; nothing is attempted after the first success; the
\* result is that first success, its message naming the fallback strategy when
\* a fallback found it; and "Element not found with any strategy" is returned
\* exactly when every strategy was attempted and failed.
C30_FallbackOrder ==
  frame.pc \in {"smartLocate", "done"} =>
    LET order == StrategiesInOrder(frame.args)
        outcomes == frame.outcomes
    IN /\ Len(trace) <= Len(order)
       /\ \A k \in 1..Len(trace) :
            /\ trace[k].strategy = order[k].strategy
            /\ trace[k].locator = order[k].locator
            /\ \A j \in 1..(k - 1) : ~Found(outcomes[j])
       /\ frame.pc = "smartLocate" => Len(trace) = Len(outcomes) + 1
       /\ frame.pc = "done" =>
            /\ Len(trace) = Len(outcomes)
            /\ Found(outcomes[Len(outcomes)]) =>
                 /\ Found(frame.result)
                 /\ Get(frame.result, "data") = Get(outcomes[Len(outcomes)], "data")
                 /\ Len(outcomes) = 1 => frame.result = outcomes[1]
                 /\ Len(outcomes) > 1 =>
                      Get(frame.result, "message") =
                        Str(<<"Element found using fallback strategy: ">> \o
                            order[Len(outcomes)].strategy.s)
            /\ Get(frame.result, "message") = Str(<<"Element not found with any strategy">>)
                 <=> /\ Len(outcomes) = Len(order)
                     /\ \A j \in 1..Len(outcomes) : ~Found(outcomes[j])

\* the primary and the first fallback failed, the second fallback found the
\* element and its result was returned under the fallback message
C30_Witness ==
  /\ frame.pc = "done" /\ Len(trace) = 3
  /\ ~Found(frame.outcomes[1]) /\ ~Found(frame.outcomes[2]) /\ Found(frame.outcomes[3])
  /\ Found(frame.result)
  /\ Get(frame.result, "message") =
       Str(<<"Element found using fallback strategy: ">> \o trace[3].strategy.s)

(***************************************************************************)
(* AppiumClient: startSession and endSession, each suspended at its        *)
(* awaited driver operation, with the sessions the Appium server holds.    *)
(***************************************************************************)
MaxSessions == 3

Capabilities(platformName, automationName) ==
  Obj([platformName |-> Str(<<platformName>>), platformVersion |-> Str(<<"13">>),
       deviceName |-> Str(<<"device-1">>), automationName |-> Str(<<automationName>>)])

\* the capabilities a caller passes: valid Android and iOS, a platform with no
\* rule of its own, the wrong automation for the platform, and fields missing
SessionCapabilities ==
  {Capabilities("Android", "UiAutomator2"), Capabilities("iOS", "XCUITest"),
   Capabilities("Windows", "WinAppDriver"), Capabilities("Android", "XCUITest"),
   Capabilities("iOS", "UiAutomator2"),
   Obj([platformName |-> Str(<<"Android">>), platformVersion |-> Str(<<"13">>)]),
   EmptyObj}

SessionFailures == {ErrorObj(<<"connect ECONNREFUSED">>), Str(<<"thrown text">>)}

\* validateCapabilities(capabilities): the AppiumError thrown, or undefined
validateCapabilities(capabilities) ==
  IF ~Truthy(Get(capabilities, "platformName"))
  THEN ErrorObj(<<"platformName is required">>)
  ELSE IF ~Truthy(Get(capabilities, "platformVersion"))
  THEN ErrorObj(<<"platformVersion is required">>)
  ELSE IF ~Truthy(Get(capabilities, "deviceName"))
  THEN ErrorObj(<<"deviceName is required">>)
  ELSE IF ~Truthy(Get(capabilities, "automationName"))
  THEN ErrorObj(<<"automationName is required">>)
  ELSE IF Get(capabilities, "platformName") = Str(<<"Android">>)
          /\ Get(capabilities, "automationName") # Str(<<"UiAutomator2">>)
  THEN ErrorObj(<<"Android requires UiAutomator2 automation">>)
  ELSE IF Get(capabilities, "platformName") = Str(<<"iOS">>)
          /\ Get(capabilities, "automationName") # Str(<<"XCUITest">>)
  THEN ErrorObj(<<"iOS requires XCUITest automation">>)
  ELSE Undef

\* error instanceof Error ? error.message : 'Unknown error occurred'
SessionErrorMessage(error) ==
  IF error.t = "error" THEN error.message ELSE <<"Unknown error occurred">>

SessionFailure(prefix, error) ==
  Obj([success |-> Bool(FALSE),
       message |-> Str(<<prefix>> \o SessionErrorMessage(error)),
       error |-> Str(SessionErrorMessage(error))])

\* the driver webdriverio's remote() resolves with for the n-th session created
SessionDriver(n, capabilities) ==
  Obj([sessionId |-> Str(<<"session-", ToString(n)>>), capabilities |-> capabilities])

\* updateAllManagers with the app manager left out
updateAllButAppManager(client) ==
  [client EXCEPT !.managers =
     [m \in DOMAIN client.managers |->
        IF m = "appManager" THEN client.managers[m] ELSE client.driver]]

\* updateAllManagers(): every manager's setDriver(this.driver)
updateAllManagers(client) ==
  [client EXCEPT !.managers = [m \in DOMAIN client.managers |-> client.driver]]

isSessionActive(client) == client.driver # Null /\ client.sessionInfo # Null

Calling(method) == method \in DOMAIN frame

Without(method) == [k \in DOMAIN frame \ {method} |-> frame[k]]

\* startSession(capabilities), up to the awaited remote(); alone: no other call
\* of the client is in progress
StartSessionCall(alone) ==
  /\ ~Calling("startSession")
  /\ alone => ~Calling("endSession")
  /\ remote.created < MaxSessions
  /\ \E capabilities \in SessionCapabilities :
       LET error == validateCapabilities(capabilities)
           call == [pc |-> "remote", capabilities |-> capabilities,
                    before |-> appiumClient, whileDeleting |-> FALSE,
                    installed |-> Null, result |-> Undef]
       IN IF error # Undef
          THEN frame' = frame @@
                 [startSession |->
                    [call EXCEPT !.pc = "done",
                       !.result = SessionFailure("Failed to start Appium session: ", error)]]
          ELSE frame' = frame @@ [startSession |-> call]
  /\ UNCHANGED <<dispatcherVars, elementManager, enhancedGestureManager, appiumClient,
                 contextManager, remote, trace>>

\* remote() resolves: the server has created the session; the driver and the
\* session info are stored and handed to the managers
RemoteResolves ==
  /\ Calling("startSession") /\ frame.startSession.pc = "remote"
  /\ LET n == remote.created + 1
         d == SessionDriver(n, frame.startSession.capabilities)
         info == Obj([sessionId |-> Get(d, "sessionId"),
                      capabilities |-> frame.startSession.capabilities])
     IN /\ remote' = [created |-> n, alive |-> remote.alive \cup {Get(d, "sessionId")}]
        /\ appiumClient' =
             updateAllManagers([appiumClient EXCEPT !.driver = d, !.sessionInfo = info])
        /\ frame' = [frame EXCEPT
             !.startSession.pc = "done",
             !.startSession.installed = d,
             !.startSession.whileDeleting =
                Calling("endSession") /\ frame.endSession.pc = "deleteSession",
             !.startSession.result =
                Obj([success |-> Bool(TRUE),
                     message |-> Str(<<"Appium session started successfully on ">> \o
                                     Get(frame.startSession.capabilities, "platformName").s),
                     data |-> info])]
  /\ UNCHANGED <<dispatcherVars, elementManager, enhancedGestureManager, contextManager,
                 trace>>

\* remote() rejects: the catch answers, nothing was stored
RemoteRejects ==
  /\ Calling("startSession") /\ frame.startSession.pc = "remote"
  /\ \E error \in SessionFailures :
       frame' = [frame EXCEPT
         !.startSession.pc = "done",
         !.startSession.result = SessionFailure("Failed to start Appium session: ", error)]
  /\ UNCHANGED <<dispatcherVars, elementManager, enhancedGestureManager, appiumClient,
                 contextManager, remote, trace>>

\* endSession(), up to the awaited this.driver.deleteSession()
EndSessionCall(alone) ==
  /\ ~Calling("endSession")
  /\ alone => ~Calling("startSession")
  /\ LET call == [pc |-> "deleteSession", before |-> appiumClient,
                  target |-> appiumClient.driver, result |-> Undef]
     IN IF ~Truthy(appiumClient.driver)
        THEN frame' = frame @@
               [endSession |->
                  [call EXCEPT !.pc = "done",
                     !.result = Obj([success |-> Bool(FALSE),
                                     message |-> Str(<<"No active session to end">>)])]]
        ELSE frame' = frame @@ [endSession |-> call]
  /\ UNCHANGED <<dispatcherVars, elementManager, enhancedGestureManager, appiumClient,
                 contextManager, remote, trace>>

\* deleteSession resolves: the server has dropped the session it was called
\* on; the client's driver and session info are cleared, the managers updated
DeleteResolves ==
  /\ Calling("endSession") /\ frame.endSession.pc = "deleteSession"
  /\ remote' = [remote EXCEPT !.alive = @ \ {Get(frame.endSession.target, "sessionId")}]
  /\ appiumClient' =
       updateAllManagers([appiumClient EXCEPT !.driver = Null, !.sessionInfo = Null])
  /\ frame' = [frame EXCEPT
       !.endSession.pc = "done",
       !.endSession.result = Obj([success |-> Bool(TRUE),
                                  message |-> Str(<<"Appium session ended successfully">>)])]
  /\ UNCHANGED <<dispatcherVars, elementManager, enhancedGestureManager, contextManager,
                 trace>>

\* deleteSession rejects: the catch answers; the server may or may not have
\* dropped the session before the failure
DeleteRejects ==
  /\ Calling("endSession") /\ frame.endSession.pc = "deleteSession"
  /\ \E error \in SessionFailures :
       frame' = [frame EXCEPT
         !.endSession.pc = "done",
         !.endSession.result = SessionFailure("Failed to end Appium session: ", error)]
  /\ \E dropped \in BOOLEAN :
       remote' = IF dropped
                 THEN [remote EXCEPT
                         !.alive = @ \ {Get(frame.endSession.target, "sessionId")}]
                 ELSE remote
  /\ UNCHANGED <<dispatcherVars, elementManager, enhancedGestureManager, appiumClient,
                 contextManager, trace>>

\* the caller of startSession has its result
StartSessionReturned ==
  /\ Calling("startSession") /\ frame.startSession.pc = "done"
  /\ frame' = Without("startSession")
  /\ UNCHANGED <<dispatcherVars, elementManager, enhancedGestureManager, appiumClient,
                 contextManager, remote, trace>>

\* the caller of endSession has its result
EndSessionReturned ==
  /\ Calling("endSession") /\ frame.endSession.pc = "done"
  /\ frame' = Without("endSession")
  /\ UNCHANGED <<dispatcherVars, elementManager, enhancedGestureManager, appiumClient,
                 contextManager, remote, trace>>

\* calls made one after the other, each completed before the next
NextSession ==
  \/ StartSessionCall(TRUE)
  \/ EndSessionCall(TRUE)
  \/ RemoteResolves
  \/ RemoteRejects
  \/ DeleteResolves
  \/ DeleteRejects
  \/ StartSessionReturned
  \/ EndSessionReturned

SpecSession == Init /\ [][NextSession]_vars

\* a startSession and an endSession may be in progress at the same time
NextInterleaved ==
  \/ StartSessionCall(FALSE)
  \/ EndSessionCall(FALSE)
  \/ RemoteResolves
  \/ RemoteRejects
  \/ DeleteResolves
  \/ DeleteRejects
  \/ StartSessionReturned
  \/ EndSessionReturned

SpecInterleaved == Init /\ [][NextInterleaved]_vars

\* no call of the client is in progress or waiting to be collected
Quiescent == ~Calling("startSession") /\ ~Calling("endSession")

\* no call of the client is suspended at its awaited driver operation
NoneSuspended ==
  /\ Calling("startSession") => frame.startSession.pc = "done"
  /\ Calling("endSession") => frame.endSession.pc = "done"

ReturnedFailure(call) == call.pc = "done" /\ Get(call.result, "success") = Bool(FALSE)

ReturnedSuccess(call) == call.pc = "done" /\ Get(call.result, "success") = Bool(TRUE)

\* C25 as stated: after any sequence of startSession and endSession calls at
\* most one remote session created by startSession is still undeleted, and it
\* is the one the client's driver refers to: no earlier session is left alive
\* and unreferenced.
C25_AtMostOneRemoteSession ==
  Quiescent =>
    /\ Cardinality(remote.alive) <= 1
    /\ \A s \in remote.alive : Get(appiumClient.driver, "sessionId") = s

\* C26: after any sequence of completed startSession and endSession calls,
\* failed ones included, the client's driver is null exactly when its
\* sessionInfo is null, every manager holds the client's driver, and a call
\* that returned success=false left the driver, the sessionInfo and the
\* managers' drivers as they were when it was made.
C26_ClientConsistent ==
  NoneSuspended =>
    /\ appiumClient.driver = Null <=> appiumClient.sessionInfo = Null
    /\ \A m \in DOMAIN appiumClient.managers :
         appiumClient.managers[m] = appiumClient.driver
    /\ Calling("startSession") /\ ReturnedFailure(frame.startSession) =>
         appiumClient = frame.startSession.before
    /\ Calling("endSession") /\ ReturnedFailure(frame.endSession) =>
         appiumClient = frame.endSession.before

\* an endSession whose deleteSession failed has returned while a session is
\* active, and the client still holds that session
C26_Witness ==
  /\ Calling("endSession") /\ ReturnedFailure(frame.endSession)
  /\ Get(frame.endSession.result, "message").s[1] = "Failed to end Appium session: "
  /\ isSessionActive(appiumClient)
  /\ appiumClient.managers["appManager"] = appiumClient.driver
  /\ appiumClient = frame.endSession.before

\* C27 as stated: when startSession installs its new driver and succeeds while
\* an endSession is suspended at deleteSession on the old driver, then once both
\* have returned the client still holds the new driver, its session is active
\* and every manager refers to it.
C27_EndKeepsNewDriver ==
  /\ Calling("startSession") /\ ReturnedSuccess(frame.startSession)
  /\ frame.startSession.whileDeleting
  /\ Calling("endSession") /\ frame.endSession.pc = "done"
  /\ frame.endSession.target # frame.startSession.installed
  =>
    /\ appiumClient.driver = frame.startSession.installed
    /\ isSessionActive(appiumClient)
    /\ \A m \in DOMAIN appiumClient.managers :
         appiumClient.managers[m] = frame.startSession.installed
====
